---- MODULE Spec2Model ----
(***************************************************************************)
(* Model of the e-signature backend's field detector                       *)
(* (apps/backend/app/services/detection/detector.py).                      *)
(*                                                                         *)
(* Conventions                                                             *)
(*  - Confidences are percentages: the float 0.95 of the source is 95.     *)
(*  - Coordinates are integer PDF points.                                  *)
(*  - Text is a TLA+ string; the six checkbox glyphs of the source, which  *)
(*    the TLA+ lexer does not take, are written as the ASCII characters    *)
(*    of checkbox_chars.                                                   *)
(*  - Python's None is the string "None".                                  *)
(***************************************************************************)
EXTENDS Integers, Sequences, FiniteSets, TLC

None == "None"

Max(a, b) == IF a >= b THEN a ELSE b
Min(a, b) == IF a <= b THEN a ELSE b
Abs(a) == IF a >= 0 THEN a ELSE 0 - a

(***************************************************************************)
(* Python string operations used by the detector.                          *)
(***************************************************************************)
\* s[m-1:n] of Python: the slice is cut to the string
Slice(s, m, n) == SubSeq(s, Max(m, 1), Min(n, Len(s)))

Ch(s, i) == IF i \in 1..Len(s) THEN SubSeq(s, i, i) ELSE ""

UpperAlphabet == "ABCDEFGHIJKLMNOPQRSTUVWXYZ"
LowerAlphabet == "abcdefghijklmnopqrstuvwxyz"
Digits == "0123456789"

InString(c, alphabet) == \E i \in 1..Len(alphabet) : Ch(alphabet, i) = c

\* str.lower() on one character
LowerChar(c) ==
    IF InString(c, UpperAlphabet)
    THEN Ch(LowerAlphabet, CHOOSE i \in 1..Len(UpperAlphabet) : Ch(UpperAlphabet, i) = c)
    ELSE c

RECURSIVE Lower(_)
\* str.lower()
Lower(s) == IF Len(s) = 0 THEN "" ELSE LowerChar(Ch(s, 1)) \o Lower(SubSeq(s, 2, Len(s)))

\* the regular expression class \w
IsWord(c) == InString(c, UpperAlphabet) \/ InString(c, LowerAlphabet)
             \/ InString(c, Digits) \/ c = "_"

IsSpace(c) == c = " " \/ c = "\n" \/ c = "\t"

\* str.strip()
Strip(s) ==
    LET solid == {i \in 1..Len(s) : ~IsSpace(Ch(s, i))}
    IN  IF solid = {} THEN ""
        ELSE SubSeq(s, CHOOSE i \in solid : \A j \in solid : i <= j,
                       CHOOSE i \in solid : \A j \in solid : i >= j)

\* the offsets (1-based) at which sub occurs in s
Occurrences(sub, s) ==
    {i \in 1..(Len(s) - Len(sub) + 1) : SubSeq(s, i, i + Len(sub) - 1) = sub}

\* Python's `sub in s`
Contains(sub, s) == Occurrences(sub, s) # {}

\* the elements of a finite set of integers in ascending order
RECURSIVE Ascending(_)
Ascending(S) ==
    IF S = {} THEN <<>>
    ELSE LET m == CHOOSE i \in S : \A j \in S : i <= j
         IN  <<m>> \o Ascending(S \ {m})

RECURSIVE Concat(_)
\* the concatenation of a sequence of sequences
Concat(ss) == IF ss = <<>> THEN <<>> ELSE Head(ss) \o Concat(Tail(ss))

(***************************************************************************)
(* Data model: BBox, DetectedField, DetectionResult.                       *)
(***************************************************************************)
BBox(x, y, width, height) == [x |-> x, y |-> y, width |-> width, height |-> height]

\* the dataclass defaults of DetectedField
DetectedFieldDefaults ==
    [owner |-> None,
     assignee_type |-> "ROLE",
     detected_role_key |-> None,
     detection_confidence |-> 50,
     classification_confidence |-> 50,
     owner_confidence |-> 50,
     role_confidence |-> 50,
     evidence |-> "",
     label |-> None,
     nearby_text |-> None]

\* DetectedField(page_number=, bbox=, field_type=, **given): the fields not
\* given keep the dataclass defaults
DetectedField(page_number, bbox, field_type, given) ==
    [k \in {"page_number", "bbox", "field_type"} \cup DOMAIN DetectedFieldDefaults |->
        CASE k = "page_number" -> page_number
          [] k = "bbox" -> bbox
          [] k = "field_type" -> field_type
          [] OTHER -> IF k \in DOMAIN given THEN given[k] ELSE DetectedFieldDefaults[k]]

(***************************************************************************)
(* The deduplicator.                                                       *)
(***************************************************************************)
\* the default of the parameter threshold of _boxes_overlap (0.5)
OverlapThreshold == 50

\* RatioAbove with the threshold a tenth higher
RatioAboveHigher(num, den, pct) ==
    IF den > 0 THEN 100 * num > (pct + 10) * den ELSE 100 * num < (pct + 10) * den

\* num / den > pct / 100 in exact arithmetic, den # 0
RatioAbove(num, den, pct) ==
    IF den > 0 THEN 100 * num > pct * den ELSE 100 * num < pct * den

\* boxes_overlap with `and` for `or`: both ratios must pass the threshold
boxes_overlap_both(box1, box2) ==
    LET inter_x == Max(0, Min(box1.x + box1.width, box2.x + box2.width) - Max(box1.x, box2.x))
        inter_y == Max(0, Min(box1.y + box1.height, box2.y + box2.height) - Max(box1.y, box2.y))
        inter_area == inter_x * inter_y
        area1 == box1.width * box1.height
        area2 == box2.width * box2.height
    IN  IF area1 = 0 \/ area2 = 0 THEN FALSE
        ELSE RatioAbove(inter_area, area1, OverlapThreshold)
             /\ RatioAbove(inter_area, area2, OverlapThreshold)

boxes_overlap(box1, box2) ==
    LET x1_min == box1.x
        x1_max == box1.x + box1.width
        y1_min == box1.y
        y1_max == box1.y + box1.height
        x2_min == box2.x
        x2_max == box2.x + box2.width
        y2_min == box2.y
        y2_max == box2.y + box2.height
        inter_x == Max(0, Min(x1_max, x2_max) - Max(x1_min, x2_min))
        inter_y == Max(0, Min(y1_max, y2_max) - Max(y1_min, y2_min))
        inter_area == inter_x * inter_y
        area1 == box1.width * box1.height
        area2 == box2.width * box2.height
    IN  IF area1 = 0 \/ area2 = 0 THEN FALSE
        ELSE RatioAbove(inter_area, area1, OverlapThreshold)
             \/ RatioAbove(inter_area, area2, OverlapThreshold)

\* SortKey without reverse=True: the sort ascends
SortKeyAscending(c) == 0 - c.detection_confidence

\* the sort key of the deduplicator: lambda c: c.detection_confidence
SortKey(c) == c.detection_confidence

\* InsertDescending of a sort that is not stable: c goes before its equals
InsertDescendingUnstable(c, s) ==
    LET k == Cardinality({i \in 1..Len(s) : SortKey(s[i]) > SortKey(c)})
    IN  SubSeq(s, 1, k) \o <<c>> \o SubSeq(s, k + 1, Len(s))

\* one step of a stable descending sort: c, which followed every element of
\* s in the input, goes after the elements whose key is at least its own
InsertDescending(c, s) ==
    LET k == Cardinality({i \in 1..Len(s) : SortKey(s[i]) >= SortKey(c)})
    IN  SubSeq(s, 1, k) \o <<c>> \o SubSeq(s, k + 1, Len(s))

RECURSIVE SortedDescending(_)
\* sorted(candidates, key=..., reverse=True): stable, ties keep input order
SortedDescending(candidates) ==
    IF candidates = <<>> THEN <<>>
    ELSE InsertDescending(candidates[Len(candidates)],
                          SortedDescending(SubSeq(candidates, 1, Len(candidates) - 1)))

\* OverlapsKept without the comparison of the page numbers
OverlapsKeptAnyPage(kept, candidate) ==
    \E i \in 1..Len(kept) : boxes_overlap(kept[i].bbox, candidate.bbox)

\* the inner loop: does a kept candidate of the same page overlap candidate
OverlapsKept(kept, candidate) ==
    \E i \in 1..Len(kept) :
        /\ kept[i].page_number = candidate.page_number
        /\ boxes_overlap(kept[i].bbox, candidate.bbox)

RECURSIVE KeepLoop(_, _)
\* the outer loop over sorted_candidates
KeepLoop(kept, rest) ==
    IF rest = <<>> THEN kept
    ELSE KeepLoop(IF OverlapsKept(kept, Head(rest)) THEN kept ELSE Append(kept, Head(rest)),
                  Tail(rest))

deduplicate_candidates(candidates) ==
    IF candidates = <<>> THEN <<>>
    ELSE KeepLoop(<<>>, SortedDescending(candidates))

\* dict.get(key, default)
Get(d, key, default) == IF key \in DOMAIN d THEN d[key] ELSE default

\* the empty dict {}
EmptyDict == [k \in {} |-> None]

\* the first element of the sequence of keywords that occurs in text, or None
FirstKeyword(keywords, text) ==
    LET hits == {i \in 1..Len(keywords) : Contains(keywords[i], text)}
    IN  IF hits = {} THEN None
        ELSE keywords[CHOOSE i \in hits : \A j \in hits : i <= j]

(***************************************************************************)
(* The keyword lexicon (class attributes of FieldDetector).                *)
(***************************************************************************)
SIGNATURE_KEYWORDS ==
    <<"signature", "sign here", "authorized signature",
      "client signature", "employee signature", "contractor signature",
      "landlord signature", "tenant signature", "buyer signature",
      "seller signature", "witness signature">>

DATE_KEYWORDS ==
    <<"date", "dated", "date signed", "effective date",
      "start date", "end date", "as of">>

NAME_KEYWORDS ==
    <<"name", "print name", "printed name", "full name",
      "client name", "employee name", "contractor name",
      "landlord", "tenant", "buyer", "seller">>

EMAIL_KEYWORDS == <<"email", "e-mail", "email address">>

INITIALS_KEYWORDS == <<"initials", "initial here", "initial">>

\* a dict in insertion order: a sequence of (role_key, keywords)
ROLE_KEYWORDS ==
    << <<"client", <<"client", "customer", "buyer", "purchaser", "party a", "first party">> >>,
       <<"contractor", <<"contractor", "consultant", "freelancer", "vendor">> >>,
       <<"employee", <<"employee", "worker", "staff", "team member">> >>,
       <<"company", <<"company", "employer", "corporation", "business", "party b", "second party">> >>,
       <<"landlord", <<"landlord", "lessor", "property owner", "owner">> >>,
       <<"tenant", <<"tenant", "renter", "lessee", "occupant">> >>,
       <<"seller", <<"seller", "vendor">> >>,
       <<"borrower", <<"borrower", "debtor">> >>,
       <<"lender", <<"lender", "creditor", "bank">> >>,
       <<"witness", <<"witness">> >>,
       <<"guarantor", <<"guarantor", "co-signer", "cosigner">> >> >>

LEGACY_ROLE_MAP ==
    [client |-> "SIGNER_1", employee |-> "SIGNER_1", contractor |-> "SIGNER_1",
     tenant |-> "SIGNER_1", buyer |-> "SIGNER_1", borrower |-> "SIGNER_1",
     company |-> "SIGNER_2", employer |-> "SIGNER_2", landlord |-> "SIGNER_2",
     seller |-> "SIGNER_2", lender |-> "SIGNER_2", witness |-> "SIGNER_2",
     guarantor |-> "SIGNER_2"]

\* returns <<role_key, confidence>>
infer_role_from_text(text) ==
    LET text_lower == Lower(text)
        hits == {i \in 1..Len(ROLE_KEYWORDS) :
                    FirstKeyword(ROLE_KEYWORDS[i][2], text_lower) # None}
    IN  IF hits = {} THEN <<"signer", 30>>
        ELSE <<ROLE_KEYWORDS[CHOOSE i \in hits : \A j \in hits : i <= j][1], 70>>

role_to_legacy_owner(role_key) == Get(LEGACY_ROLE_MAP, role_key, "SIGNER_1")

infer_owner_from_text(text) == role_to_legacy_owner(infer_role_from_text(text)[1])

\* classify_by_label with the date keywords tried before the signature keywords
classify_by_label_date_first(label) ==
    LET label_lower == Lower(label)
        field_type ==
            IF FirstKeyword(DATE_KEYWORDS, label_lower) # None THEN "DATE_SIGNED"
            ELSE IF FirstKeyword(SIGNATURE_KEYWORDS, label_lower) # None THEN "SIGNATURE"
            ELSE IF FirstKeyword(NAME_KEYWORDS, label_lower) # None THEN "NAME"
            ELSE IF FirstKeyword(EMAIL_KEYWORDS, label_lower) # None THEN "EMAIL"
            ELSE IF FirstKeyword(INITIALS_KEYWORDS, label_lower) # None THEN "INITIALS"
            ELSE "TEXT"
    IN  <<field_type, infer_owner_from_text(label_lower)>>

\* returns <<field_type, owner>>
classify_by_label(label) ==
    LET label_lower == Lower(label)
        field_type ==
            IF FirstKeyword(SIGNATURE_KEYWORDS, label_lower) # None THEN "SIGNATURE"
            ELSE IF FirstKeyword(DATE_KEYWORDS, label_lower) # None THEN "DATE_SIGNED"
            ELSE IF FirstKeyword(NAME_KEYWORDS, label_lower) # None THEN "NAME"
            ELSE IF FirstKeyword(EMAIL_KEYWORDS, label_lower) # None THEN "EMAIL"
            ELSE IF FirstKeyword(INITIALS_KEYWORDS, label_lower) # None THEN "INITIALS"
            ELSE "TEXT"
    IN  <<field_type, infer_owner_from_text(label_lower)>>

(***************************************************************************)
(* The PDF adapter (PyMuPDF), as far as the detector reads it.  A page is  *)
(*   [drawings |-> sequence of paths [items, rect],                        *)
(*    widgets  |-> sequence of [field_type, rect],                         *)
(*    lines    |-> sequence of text lines [text, x, y, advance, height]]   *)
(* A text line is one span set in a fixed-advance font: its character i    *)
(* starts at x + (i - 1) * advance.                                        *)
(***************************************************************************)
RECURSIVE JoinLines(_)
JoinLines(lines) ==
    IF lines = <<>> THEN "" ELSE Head(lines).text \o "\n" \o JoinLines(Tail(lines))

\* page.get_text("text")
get_text(page) == JoinLines(page.lines)

RECURSIVE SearchLines(_, _)
SearchLines(lines, needle) ==
    IF lines = <<>> THEN <<>>
    ELSE LET line == Head(lines)
             offs == Ascending(Occurrences(Lower(needle), Lower(line.text)))
         IN  [k \in 1..Len(offs) |->
                 [x0 |-> line.x + (offs[k] - 1) * line.advance,
                  y0 |-> line.y,
                  width |-> Len(needle) * line.advance,
                  height |-> line.height]]
             \o SearchLines(Tail(lines), needle)

\* page.search_for(needle): the rectangle of every hit in reading order; the
\* library's search ignores case
search_for(page, needle) == SearchLines(page.lines, needle)

\* a page layout is [kind |-> "layout", lines, words], the absent layout
\* [kind |-> "none"] (None), or [kind |-> "malformed"]: a value of the
\* caller's JSON that is no mapping (a string, a number)
NoLayout == [kind |-> "none"]
Malformed == [kind |-> "malformed"]

\* Python truth of a page layout
Truthy(page_layout) == page_layout.kind # "none"

LayoutLine(line) ==
    [text |-> line.text,
     bbox |-> [x |-> line.x, y |-> line.y,
               width |-> (line.x + line.advance * Len(line.text)) - line.x,
               height |-> (line.y + line.height) - line.y]]

extract_page_layout(page) ==
    LET spans == [i \in 1..Len(page.lines) |-> LayoutLine(page.lines[i])]
    IN  [kind |-> "layout",
         lines |-> spans,
         words |-> SelectSeq(spans, LAMBDA w : Strip(w.text) # "")]

(***************************************************************************)
(* Strategy 1: underlines and blanks.                                      *)
(***************************************************************************)
\* returns <<label, field_type, owner>>
find_nearby_label(page_layout, x, y, width) ==
    IF ~Truthy(page_layout) THEN <<None, "TEXT", "SIGNER_1">>
    ELSE LET words == page_layout.words
             word_x(i) == Get(Get(words[i], "bbox", EmptyDict), "x", 0)
             word_y(i) == Get(Get(words[i], "bbox", EmptyDict), "y", 0)
             distance(i) == Abs(y - word_y(i)) + Abs(x - word_x(i))
             near == {i \in 1..Len(words) :
                         word_y(i) <= y /\ word_x(i) <= x + width /\ distance(i) < 100}
             best == CHOOSE i \in near : \A j \in near :
                         distance(i) < distance(j) \/ (distance(i) = distance(j) /\ i <= j)
             best_label == IF near = {} THEN None ELSE Get(words[best], "text", "")
         IN  IF best_label # None /\ best_label # ""
             THEN <<best_label>> \o classify_by_label(best_label)
             ELSE <<None, "TEXT", "SIGNER_1">>

LineItems(page) ==
    Concat([i \in 1..Len(page.drawings) |->
               SelectSeq(page.drawings[i].items, LAMBDA item : item.op = "l")])

UnderlineField(item, page_number, page_layout) ==
    LET line_width == Abs(item.end.x - item.start.x)
        line_y == item.start.y
        found == find_nearby_label(page_layout, item.start.x, line_y, line_width)
        nearby_text == found[1]
    IN  DetectedField(page_number,
                      BBox(Min(item.start.x, item.end.x), line_y - 15, line_width, 20),
                      found[2],
                      [owner |-> found[3],
                       detection_confidence |-> IF nearby_text # None THEN 70 ELSE 50,
                       classification_confidence |-> IF nearby_text # None THEN 60 ELSE 40,
                       owner_confidence |-> 50,
                       evidence |-> IF nearby_text # None
                                    THEN "Underline detected with nearby text: '"
                                         \o nearby_text \o "'"
                                    ELSE "Underline detected (no label)",
                       label |-> nearby_text,
                       nearby_text |-> nearby_text])

BlankField(line, page_number) ==
    LET text == Get(line, "text", "")
        start == CHOOSE i \in Occurrences("___", text) :
                     \A j \in Occurrences("___", text) : i <= j
        bbox == Get(line, "bbox", EmptyDict)
        label_text == Strip(Slice(text, 1, start - 1))
        classified == classify_by_label(label_text)
    IN  DetectedField(page_number,
                      BBox(Get(bbox, "x", 0), Get(bbox, "y", 0),
                           Get(bbox, "width", 100), Get(bbox, "height", 20)),
                      classified[1],
                      [owner |-> classified[2],
                       detection_confidence |-> 80,
                       classification_confidence |-> IF label_text # "" THEN 70 ELSE 50,
                       owner_confidence |-> 50,
                       evidence |-> IF label_text # ""
                                    THEN "Underscore blank with label: '" \o label_text \o "'"
                                    ELSE "Underscore blank detected",
                       label |-> IF label_text # "" THEN label_text ELSE None,
                       nearby_text |-> IF label_text # "" THEN label_text ELSE None])

\* a layout that is no mapping makes the strategy raise (AttributeError on
\* page_layout.get)
detect_underlines_raises(page_layout) == page_layout.kind = "malformed"

detect_underlines(page, page_number, page_layout) ==
    LET drawn == SelectSeq(LineItems(page),
                           LAMBDA item : /\ Abs(item.start.y - item.end.y) < 2
                                         /\ Abs(item.end.x - item.start.x) > 50)
        lines == IF Truthy(page_layout) THEN page_layout.lines ELSE <<>>
        blanks == SelectSeq(lines, LAMBDA line : Contains("___", Get(line, "text", "")))
    IN  [i \in 1..Len(drawn) |-> UnderlineField(drawn[i], page_number, page_layout)]
        \o [i \in 1..Len(blanks) |-> BlankField(blanks[i], page_number)]

(***************************************************************************)
(* Strategy 2: checkboxes.                                                 *)
(***************************************************************************)
\* the six checkbox glyphs U+2610 U+2611 U+2612 U+25A1 U+25A2 U+25A3
checkbox_chars == <<"#", "@", "%", "^", "~", "$">>

WidgetField(widget, page_number) ==
    DetectedField(page_number,
                  BBox(widget.rect.x0, widget.rect.y0, widget.rect.width, widget.rect.height),
                  "CHECKBOX",
                  [owner |-> "SIGNER_1",
                   detection_confidence |-> 95,
                   classification_confidence |-> 95,
                   owner_confidence |-> 50,
                   evidence |-> "PDF checkbox widget detected"])

SquareField(path, page_number) ==
    DetectedField(page_number,
                  BBox(path.rect.x0, path.rect.y0, path.rect.width, path.rect.height),
                  "CHECKBOX",
                  [owner |-> "SIGNER_1",
                   detection_confidence |-> 70,
                   classification_confidence |-> 80,
                   owner_confidence |-> 50,
                   evidence |-> "Small square shape detected (potential checkbox)"])

GlyphField(inst, char, page_number) ==
    DetectedField(page_number,
                  BBox(inst.x0, inst.y0, inst.width + 5, inst.height + 5),
                  "CHECKBOX",
                  [owner |-> "SIGNER_1",
                   detection_confidence |-> 90,
                   classification_confidence |-> 95,
                   owner_confidence |-> 50,
                   evidence |-> "Checkbox character '" \o char \o "' detected"])

GlyphFields(page, char, page_number) ==
    LET text_instances == IF Contains(char, get_text(page))
                          THEN search_for(page, char) ELSE <<>>
    IN  [i \in 1..Len(text_instances) |-> GlyphField(text_instances[i], char, page_number)]

detect_checkboxes(page, page_number) ==
    LET boxes == SelectSeq(page.widgets, LAMBDA widget : widget.field_type = "CHECKBOX")
        squares == SelectSeq(page.drawings,
                             LAMBDA path : /\ 8 <= path.rect.width /\ path.rect.width <= 25
                                           /\ 8 <= path.rect.height /\ path.rect.height <= 25
                                           /\ Abs(path.rect.width - path.rect.height) < 5)
    IN  [i \in 1..Len(boxes) |-> WidgetField(boxes[i], page_number)]
        \o [i \in 1..Len(squares) |-> SquareField(squares[i], page_number)]
        \o Concat([k \in 1..Len(checkbox_chars) |->
                      GlyphFields(page, checkbox_chars[k], page_number)])

(***************************************************************************)
(* Strategy 3: signature, date and initials keywords.                      *)
(***************************************************************************)
KeywordField(line, page_number, field_type, width, height, detection, classification, what) ==
    LET text == Lower(Get(line, "text", ""))
        bbox == Get(line, "bbox", EmptyDict)
        inferred == infer_role_from_text(text)
        role_key == inferred[1]
        role_confidence == inferred[2]
    IN  DetectedField(page_number,
                      BBox(Get(bbox, "x", 0) + Get(bbox, "width", 0) + 10,
                           Get(bbox, "y", 0), width, height),
                      field_type,
                      [owner |-> role_to_legacy_owner(role_key),
                       assignee_type |-> "ROLE",
                       detected_role_key |-> role_key,
                       detection_confidence |-> detection,
                       classification_confidence |-> classification,
                       owner_confidence |-> role_confidence,
                       role_confidence |-> role_confidence,
                       evidence |-> what \o " detected (inferred role: " \o role_key \o ")",
                       label |-> Strip(text),
                       nearby_text |-> Strip(text)])

\* the candidates of one layout line: each of the three keyword loops emits
\* at its first hit and breaks
LineKeywordFields(line, page_number) ==
    LET text == Lower(Get(line, "text", ""))
        sig == FirstKeyword(SIGNATURE_KEYWORDS, text)
        date == IF Contains("signature", text) THEN None ELSE FirstKeyword(DATE_KEYWORDS, text)
        init == FirstKeyword(INITIALS_KEYWORDS, text)
    IN  (IF sig = None THEN <<>>
         ELSE <<KeywordField(line, page_number, "SIGNATURE", 150, 40, 80, 90,
                             "Signature keyword '" \o sig \o "'")>>)
        \o (IF date = None THEN <<>>
            ELSE <<KeywordField(line, page_number, "DATE_SIGNED", 100, 20, 75, 85,
                                "Date keyword '" \o date \o "'")>>)
        \o (IF init = None THEN <<>>
            ELSE <<KeywordField(line, page_number, "INITIALS", 60, 30, 80, 85,
                                "Initials keyword '" \o init \o "'")>>)

detect_signature_areas(page, page_number, page_layout) ==
    IF ~Truthy(page_layout) THEN <<>>
    ELSE Concat([i \in 1..Len(page_layout.lines) |->
                    LineKeywordFields(page_layout.lines[i], page_number)])

(***************************************************************************)
(* Strategy 4: anchor tags.                                                *)
(***************************************************************************)
\* type_map without the code "date"
type_map_without_date ==
    [sig |-> "SIGNATURE", signature |-> "SIGNATURE",
     init |-> "INITIALS", initials |-> "INITIALS",
     text |-> "TEXT", name |-> "NAME", email |-> "EMAIL",
     check |-> "CHECKBOX", checkbox |-> "CHECKBOX"]

type_map ==
    [sig |-> "SIGNATURE", signature |-> "SIGNATURE",
     init |-> "INITIALS", initials |-> "INITIALS",
     date |-> "DATE_SIGNED", text |-> "TEXT", name |-> "NAME", email |-> "EMAIL",
     check |-> "CHECKBOX", checkbox |-> "CHECKBOX"]

\* legacy_role_map with a role key for the sender
legacy_role_map_sender_keyed ==
    [signer1 |-> <<"signer_1", "SIGNER_1">>, signer_1 |-> <<"signer_1", "SIGNER_1">>,
     s1 |-> <<"signer_1", "SIGNER_1">>,
     signer2 |-> <<"signer_2", "SIGNER_2">>, signer_2 |-> <<"signer_2", "SIGNER_2">>,
     s2 |-> <<"signer_2", "SIGNER_2">>,
     sender |-> <<"sender", "SENDER">>]

\* legacy role code -> <<role_key, owner>>
legacy_role_map ==
    [signer1 |-> <<"signer_1", "SIGNER_1">>, signer_1 |-> <<"signer_1", "SIGNER_1">>,
     s1 |-> <<"signer_1", "SIGNER_1">>,
     signer2 |-> <<"signer_2", "SIGNER_2">>, signer_2 |-> <<"signer_2", "SIGNER_2">>,
     s2 |-> <<"signer_2", "SIGNER_2">>,
     sender |-> <<None, "SENDER">>]

\* the last index of the run of \w characters of s that starts at i (i - 1
\* when s[i] is no \w character): the greedy match of \w+
RECURSIVE WordRunEnd(_, _)
WordRunEnd(s, i) == IF IsWord(Ch(s, i)) THEN WordRunEnd(s, i + 1) ELSE i - 1

NoMatch == [matched |-> FALSE]

\* r'\[(\w+)\|role:(\w+)\]' tried at offset i
MatchNewAnchor(s, i) ==
    LET a == WordRunEnd(s, i + 1)
        b == WordRunEnd(s, a + 7)
    IN  IF /\ Ch(s, i) = "["
           /\ a >= i + 1
           /\ Slice(s, a + 1, a + 6) = "|role:"
           /\ b >= a + 7
           /\ Ch(s, b + 1) = "]"
        THEN [matched |-> TRUE, group0 |-> Slice(s, i, b + 1),
              group1 |-> Slice(s, i + 1, a), group2 |-> Slice(s, a + 7, b)]
        ELSE NoMatch

\* r'\[(\w+)\|(\w+)\]' tried at offset i
MatchLegacyAnchor(s, i) ==
    LET a == WordRunEnd(s, i + 1)
        b == WordRunEnd(s, a + 2)
    IN  IF /\ Ch(s, i) = "["
           /\ a >= i + 1
           /\ Ch(s, a + 1) = "|"
           /\ b >= a + 2
           /\ Ch(s, b + 1) = "]"
        THEN [matched |-> TRUE, group0 |-> Slice(s, i, b + 1),
              group1 |-> Slice(s, i + 1, a), group2 |-> Slice(s, a + 2, b)]
        ELSE NoMatch

\* r'\{\{(\w+)\}\}' tried at offset i
MatchVariable(s, i) ==
    LET b == WordRunEnd(s, i + 2)
    IN  IF /\ Slice(s, i, i + 1) = "{{"
           /\ b >= i + 2
           /\ Slice(s, b + 1, b + 2) = "}}"
        THEN [matched |-> TRUE, group0 |-> Slice(s, i, b + 2), group1 |-> Slice(s, i + 2, b)]
        ELSE NoMatch

AnchorWidth(field_type) ==
    IF field_type = "SIGNATURE" THEN 150 ELSE IF field_type = "NAME" THEN 100 ELSE 80

AnchorHeight(field_type) == IF field_type \in {"SIGNATURE", "INITIALS"} THEN 40 ELSE 20

\* the body of the loop over the matches of the new pattern: the fields it
\* appends (none when the search finds nothing)
NewAnchorFields(page, page_number, match) ==
    LET field_code == Lower(match.group1)
        role_key == Lower(match.group2)
        instances == search_for(page, match.group0)
        rect == instances[1]
        field_type == Get(type_map, field_code, "TEXT")
    IN  IF instances = <<>> THEN <<>>
        ELSE <<DetectedField(page_number,
                             BBox(rect.x0, rect.y0, AnchorWidth(field_type),
                                  AnchorHeight(field_type)),
                             field_type,
                             [owner |-> role_to_legacy_owner(role_key),
                              assignee_type |-> "ROLE",
                              detected_role_key |-> role_key,
                              detection_confidence |-> 95,
                              classification_confidence |-> 95,
                              owner_confidence |-> 95,
                              role_confidence |-> 95,
                              evidence |-> "Anchor tag '" \o match.group0
                                           \o "' detected (role: " \o role_key \o ")",
                              label |-> match.group0])>>

\* LegacyAssigneeType that takes every legacy code for a role
LegacyAssigneeTypeRole(owner) == "ROLE"

\* the owner of a legacy role code decides the assignee type
LegacyAssigneeType(owner) == IF owner = "SENDER" THEN "SENDER" ELSE "ROLE"

LegacyAnchorFields(page, page_number, match) ==
    LET field_code == Lower(match.group1)
        role_code == Lower(match.group2)
        instances == search_for(page, match.group0)
        rect == instances[1]
        field_type == Get(type_map, field_code, "TEXT")
        mapped == Get(legacy_role_map, role_code, <<"signer_1", "SIGNER_1">>)
        role_key == mapped[1]
        owner == mapped[2]
    IN  IF Contains(":role:", Lower(match.group0)) \/ Contains("role:", Lower(match.group0))
        THEN <<>>
        ELSE IF instances = <<>> THEN <<>>
        ELSE <<DetectedField(page_number,
                             BBox(rect.x0, rect.y0, AnchorWidth(field_type),
                                  AnchorHeight(field_type)),
                             field_type,
                             [owner |-> owner,
                              assignee_type |-> LegacyAssigneeType(owner),
                              detected_role_key |-> role_key,
                              detection_confidence |-> 95,
                              classification_confidence |-> 95,
                              owner_confidence |-> 95,
                              role_confidence |-> 95,
                              evidence |-> "Anchor tag '" \o match.group0 \o "' detected",
                              label |-> match.group0])>>

VariableFields(page, page_number, match) ==
    LET var_name == match.group1
        instances == search_for(page, match.group0)
        rect == instances[1]
    IN  IF instances = <<>> THEN <<>>
        ELSE <<DetectedField(page_number,
                             BBox(rect.x0, rect.y0, 100, 20),
                             "TEXT",
                             [owner |-> "SENDER",
                              assignee_type |-> "SENDER",
                              detected_role_key |-> None,
                              detection_confidence |-> 95,
                              classification_confidence |-> 90,
                              owner_confidence |-> 95,
                              role_confidence |-> 95,
                              evidence |-> "Sender variable tag '{{" \o var_name
                                           \o "}}' detected",
                              label |-> var_name])>>

detect_anchor_tags(page, page_number) ==
    LET text == get_text(page)
        starts == Ascending(1..Len(text))
        new == SelectSeq(starts, LAMBDA i : MatchNewAnchor(text, i).matched)
        legacy == SelectSeq(starts, LAMBDA i : MatchLegacyAnchor(text, i).matched)
        vars == SelectSeq(starts, LAMBDA i : MatchVariable(text, i).matched)
    IN  Concat([k \in 1..Len(new) |->
                   NewAnchorFields(page, page_number, MatchNewAnchor(text, new[k]))])
        \o Concat([k \in 1..Len(legacy) |->
                      LegacyAnchorFields(page, page_number, MatchLegacyAnchor(text, legacy[k]))])
        \o Concat([k \in 1..Len(vars) |->
                      VariableFields(page, page_number, MatchVariable(text, vars[k]))])

(***************************************************************************)
(* The documents the calls read.  A document is built from a set of        *)
(* placements <<page, i>>: element i of the catalogue lies on that page;   *)
(* the elements of a page keep the catalogue's order in the page's         *)
(* drawing, widget and text streams.                                       *)
(***************************************************************************)
TextLine(text, x, y) == [text |-> text, x |-> x, y |-> y, advance |-> 6, height |-> 12]

Rect(x0, y0, width, height) == [x0 |-> x0, y0 |-> y0, width |-> width, height |-> height]

Point(x, y) == [x |-> x, y |-> y]

Catalogue ==
    << \* a horizontal vector line 100 pt long
       [stream |-> "drawings",
        item |-> [items |-> <<[op |-> "l", start |-> Point(100, 715), end |-> Point(200, 715)]>>,
                  rect |-> Rect(100, 715, 100, 0)]],
       \* a small square
       [stream |-> "drawings",
        item |-> [items |-> <<[op |-> "re"]>>, rect |-> Rect(100, 700, 12, 12)]],
       \* an interactive checkbox
       [stream |-> "widgets",
        item |-> [field_type |-> "CHECKBOX", rect |-> Rect(106, 702, 12, 12)]],
       \* a checkbox glyph (U+2610) and its caption
       [stream |-> "lines", item |-> TextLine("# ok", 104, 700)],
       [stream |-> "lines", item |-> TextLine("Signature: ___", 100, 700)],
       [stream |-> "lines", item |-> TextLine("[sig|role:client]", 190, 700)],
       [stream |-> "lines", item |-> TextLine("Date: {{d}} [date|sender]", 100, 700)] >>

\* the page counts of the documents
PageCounts == {1, 2}

\* the most elements a document of the specification Spec holds
MaxItems == 3

Stream(placed, page_number, stream) ==
    LET here == SelectSeq(Ascending({i \in 1..Len(Catalogue) : <<page_number, i>> \in placed}),
                          LAMBDA i : Catalogue[i].stream = stream)
    IN  [k \in 1..Len(here) |-> Catalogue[here[k]].item]

Document(page_count, placed) ==
    [kind |-> "pdf",
     pages |-> [p \in 1..page_count |->
                   [drawings |-> Stream(placed, p, "drawings"),
                    widgets |-> Stream(placed, p, "widgets"),
                    lines |-> Stream(placed, p, "lines")]]]

\* the documents of at most n elements
Documents(n) ==
    {Document(page_count, placed) :
        <<page_count, placed>> \in
            UNION {{<<pc0, pl>> : pl \in {s \in SUBSET ((1..pc0) \X (1..Len(Catalogue))) :
                                              Cardinality(s) <= n}} :
                   pc0 \in PageCounts}}

\* a file that is no PDF: fitz.open raises on it
NotAPdf == [kind |-> "garbage"]

(***************************************************************************)
(* The orchestrator: FieldDetector.detect_fields, one call per process.    *)
(***************************************************************************)
VARIABLES
    files,           \* the file system: path -> file
    settings,        \* the settings the module read at import
    pc,              \* where each call is
    args,            \* the arguments of each call
    page_num,        \* the loop index of each call
    all_candidates,  \* the local list of each call
    doc,             \* the PDF handle of each call: "none", "open", "closed"
    outcome,         \* what each call returned or raised
    quota,           \* the calls each process may still start
    history,         \* the log of the returned calls: arguments and result
    dedup_pc,        \* the deduplicator taken alone: "start", "once", "twice"
    dedup_input,     \*   the list it is given
    dedup_once,      \*   what it returns for dedup_input
    dedup_twice      \*   what it returns for dedup_once

call_vars == <<files, settings, pc, args, page_num, all_candidates, doc, outcome, quota, history>>
dedup_vars == <<dedup_pc, dedup_input, dedup_once, dedup_twice>>

\* the HTTP routes of the detector
VARIABLES
    response,        \* what the route serving each call returned
    field_rows       \* the rows of the table "fields"

http_vars == <<response, field_rows>>

\* the envelope routes, the signing routes and the audit service, for one
\* envelope
VARIABLES
    envelope,        \* the row of the table "envelopes"; status "NONE" before it exists
    roles,           \* the rows of the table "roles"
    recipients,      \* the rows of the table "recipients"
    field_values,    \* the recipients whose required field has a row in "field_values"
    events,          \* the rows of the table "audit_events", as inserted
    clock,           \* datetime.now
    requests,        \* the requests being served: position and session of each
    budget           \* the requests that may still arrive

env_vars == <<envelope, roles, recipients, field_values, events, clock, requests, budget>>
rest_vars == <<http_vars, env_vars>>
vars == <<call_vars, dedup_vars, rest_vars>>

\* the processes that call the shared detector
CallIds == {1, 2}
Paths == {"a.pdf", "b.pdf"}
DocumentIds == {"doc-1", ""}

\* detection_confidence_threshold: the default and an override from the
\* environment
Thresholds == {50, 80}

\* the most milliseconds the clock advances during a call
MaxElapsed == 1

\* the most calls a process of the specification SpecCalls starts
MaxCalls == 2

NoArgs == [document_id |-> "", file_path |-> "", text_layout |-> NoLayout]
NoOutcome == [kind |-> "none"]

\* the layout DocumentService.process_document stored for the file
StoredLayout(file) ==
    [kind |-> "layout",
     pages |-> [p \in 1..Len(file.pages) |-> extract_page_layout(file.pages[p])]]

\* a stored layout whose last page entry is no mapping
BrokenLayout(file) ==
    [kind |-> "layout",
     pages |-> [p \in 1..Len(file.pages) |->
                   IF p = Len(file.pages) THEN Malformed
                   ELSE extract_page_layout(file.pages[p])]]

\* a caller's layout that gives the box of every line from its opposite
\* corner, with negative width and height
InvertedLine(line) ==
    [text |-> line.text,
     bbox |-> [x |-> line.bbox.x + line.bbox.width, y |-> line.bbox.y + line.bbox.height,
               width |-> 0 - line.bbox.width, height |-> 0 - line.bbox.height]]

InvertedLayout(file) ==
    [kind |-> "layout",
     pages |-> [p \in 1..Len(file.pages) |->
                   LET stored == extract_page_layout(file.pages[p])
                   IN  [kind |-> "layout",
                        lines |-> [i \in 1..Len(stored.lines) |-> InvertedLine(stored.lines[i])],
                        words |-> stored.words]]]

\* the values a caller passes as text_layout
TextLayouts(file) ==
    IF file.kind = "pdf"
    THEN {NoLayout, StoredLayout(file), BrokenLayout(file), InvertedLayout(file)}
    ELSE {NoLayout}

\* lines 172-176: the layout of page page_number (1-based)
PageLayout(text_layout, page, page_number) ==
    IF text_layout.kind # "none"
    THEN IF page_number - 1 < Len(text_layout.pages)
         THEN text_layout.pages[page_number] ELSE NoLayout
    ELSE extract_page_layout(page)

\* PageCandidates with the anchor strategy run first
PageCandidatesAnchorsFirst(page, page_number, page_layout) ==
    detect_anchor_tags(page, page_number)
    \o detect_underlines(page, page_number, page_layout)
    \o detect_checkboxes(page, page_number)
    \o detect_signature_areas(page, page_number, page_layout)

\* lines 178-192: the four strategies in their fixed order
PageCandidates(page, page_number, page_layout) ==
    detect_underlines(page, page_number, page_layout)
    \o detect_checkboxes(page, page_number)
    \o detect_signature_areas(page, page_number, page_layout)
    \o detect_anchor_tags(page, page_number)

\* PassesThreshold with > for >=
PassesThresholdStrict(c, threshold) == c.detection_confidence > threshold

\* the test of the confidence filter
PassesThreshold(c, threshold) == c.detection_confidence >= threshold

\* DetectionResult that counts the deduplicated list, not the filtered one
DetectionResultCountsDeduplicated(document_id, candidates, threshold, detection_time_ms) ==
    LET deduplicated == deduplicate_candidates(candidates)
        filtered == SelectSeq(deduplicated, LAMBDA c : PassesThreshold(c, threshold))
    IN  [kind |-> "result",
         document_id |-> document_id,
         detected_fields |-> filtered,
         detection_time_ms |-> detection_time_ms,
         total_candidates |-> Len(candidates),
         filtered_candidates |-> Len(deduplicated)]

\* lines 196-213
DetectionResult(document_id, candidates, threshold, detection_time_ms) ==
    LET deduplicated == deduplicate_candidates(candidates)
        filtered == SelectSeq(deduplicated, LAMBDA c : PassesThreshold(c, threshold))
    IN  [kind |-> "result",
         document_id |-> document_id,
         detected_fields |-> filtered,
         detection_time_ms |-> detection_time_ms,
         total_candidates |-> Len(candidates),
         filtered_candidates |-> Len(filtered)]

\* FreshCandidates of a list that outlives the call (an attribute of the
\* shared detector, a mutable default)
StaleCandidates(previous) == previous

\* all_candidates at entry (line 161)
FreshCandidates(previous) == <<>>

\* Frame with one frame for all the calls (the list kept on the detector)
FrameOfDetector(c) == 1

\* the frame that holds the locals of the call of process c
Frame(c) == c

\* lines 160-163: a process calls detect_fields; fitz.open raises on a file
\* that is no PDF
Call(c) ==
    /\ pc[c] \in {"idle", "returned", "raised"}
    /\ quota[c] > 0
    /\ \E document_id \in DocumentIds, file_path \in Paths :
         \E text_layout \in TextLayouts(files[file_path]) :
            /\ args' = [args EXCEPT ![c] = [document_id |-> document_id,
                                            file_path |-> file_path,
                                            text_layout |-> text_layout]]
            /\ IF files[file_path].kind = "pdf"
               THEN /\ pc' = [pc EXCEPT ![c] = "loop"]
                    /\ doc' = [doc EXCEPT ![c] = "open"]
                    /\ outcome' = [outcome EXCEPT ![c] = NoOutcome]
               ELSE /\ pc' = [pc EXCEPT ![c] = "raised"]
                    /\ doc' = [doc EXCEPT ![c] = "none"]
                    /\ outcome' = [outcome EXCEPT ![c] = [kind |-> "error", error |-> "PdfOpen"]]
    /\ quota' = [quota EXCEPT ![c] = @ - 1]
    /\ page_num' = [page_num EXCEPT ![c] = 0]
    /\ all_candidates' = [all_candidates EXCEPT ![Frame(c)] = FreshCandidates(@)]
    /\ UNCHANGED <<files, settings, history, dedup_vars, rest_vars>>

\* lines 165-192: one iteration of the loop over the pages; an exception of
\* a strategy leaves the function at once
Page(c) ==
    /\ pc[c] = "loop"
    /\ page_num[c] < Len(files[args[c].file_path].pages)
    /\ LET page == files[args[c].file_path].pages[page_num[c] + 1]
           page_number == page_num[c] + 1
           page_layout == PageLayout(args[c].text_layout, page, page_number)
       IN  IF detect_underlines_raises(page_layout)
           THEN /\ pc' = [pc EXCEPT ![c] = "raised"]
                /\ outcome' = [outcome EXCEPT ![c] =
                                  [kind |-> "error", error |-> "AttributeError"]]
                /\ UNCHANGED <<page_num, all_candidates>>
           ELSE /\ all_candidates' = [all_candidates EXCEPT ![Frame(c)] =
                                         @ \o PageCandidates(page, page_number, page_layout)]
                /\ page_num' = [page_num EXCEPT ![c] = @ + 1]
                /\ UNCHANGED <<pc, outcome>>
    /\ UNCHANGED <<files, settings, args, doc, quota, history, dedup_vars, rest_vars>>

\* lines 194-213: the loop is over; close, deduplicate, filter, return
Finish(c) ==
    /\ pc[c] = "loop"
    /\ page_num[c] = Len(files[args[c].file_path].pages)
    /\ \E elapsed \in 0..MaxElapsed :
         LET result == DetectionResult(args[c].document_id, all_candidates[Frame(c)],
                                       settings.detection_confidence_threshold, elapsed)
         IN  /\ outcome' = [outcome EXCEPT ![c] = result]
             /\ history' = Append(history, [args |-> args[c], result |-> result])
    /\ doc' = [doc EXCEPT ![c] = "closed"]
    /\ pc' = [pc EXCEPT ![c] = "returned"]
    /\ UNCHANGED <<files, settings, args, page_num, all_candidates, quota, dedup_vars, rest_vars>>

Next == \E c \in CallIds : Call(c) \/ Page(c) \/ Finish(c)

InitCalls(the_files, the_quota) ==
    /\ files = the_files
    /\ quota = the_quota
    /\ settings \in {[detection_confidence_threshold |-> t] : t \in Thresholds}
    /\ pc = [c \in CallIds |-> "idle"]
    /\ args = [c \in CallIds |-> NoArgs]
    /\ page_num = [c \in CallIds |-> 0]
    /\ all_candidates = [c \in CallIds |-> <<>>]
    /\ doc = [c \in CallIds |-> "none"]
    /\ outcome = [c \in CallIds |-> NoOutcome]
    /\ history = <<>>

NoResponse == [kind |-> "none"]

\* no route has answered, the table "fields" is empty
InitHttp ==
    /\ response = [c \in CallIds |-> NoResponse]
    /\ field_rows = <<>>

\* NULL in a column of a table
Null == <<>>

\* the request slots: the requests served at one time
RequestIds == {1, 2}

\* the most requests that arrive
MaxRequests == 4

IdleRequest ==
    [op |-> "none", pc |-> "idle", id |-> 0, who |-> 0, value |-> FALSE,
     seen |-> [status |-> "NONE", recipients |-> <<>>], loaded |-> {},
     all_completed |-> FALSE, to_log |-> <<>>, after |-> "done",
     timestamp |-> 0, previous |-> Null, code |-> 0, links |-> <<>>]

\* no envelope has been created, no request has arrived
InitEnvelope ==
    /\ envelope = [status |-> "NONE", required |-> {}]
    /\ roles = <<>>
    /\ recipients = <<>>
    /\ field_values = {}
    /\ events = <<>>
    /\ clock = 0
    /\ requests = [r \in RequestIds |-> IdleRequest]
    /\ budget = MaxRequests

\* nothing but the detector has run
InitRest == InitHttp /\ InitEnvelope

\* the deduplicator is given the list the_input
InitDedup(the_input) ==
    /\ dedup_pc = "start"
    /\ dedup_input = the_input
    /\ dedup_once = <<>>
    /\ dedup_twice = <<>>

\* one call on a document of up to MaxItems elements, or on a file that is
\* no PDF
Init ==
    /\ \E document \in Documents(MaxItems) :
        InitCalls([p \in Paths |-> IF p = "a.pdf" THEN document ELSE NotAPdf],
                  [c \in CallIds |-> IF c = 1 THEN 1 ELSE 0])
    /\ InitDedup(<<>>)
    /\ InitRest

Spec == Init /\ [][Next]_vars

\* up to MaxCalls calls of one process, one after the other, on the shared
\* detector: a.pdf
\* is a page with one element of the catalogue, b.pdf a page with a square
\* and an interactive checkbox
InitSeveral ==
    /\ \E i \in 1..Len(Catalogue) :
        InitCalls([p \in Paths |-> IF p = "a.pdf" THEN Document(1, {<<1, i>>})
                                   ELSE Document(1, {<<1, 2>>, <<1, 3>>})],
                  [c \in CallIds |-> IF c = 1 THEN MaxCalls ELSE 0])
    /\ InitDedup(<<>>)
    /\ InitRest

SpecCalls == InitSeveral /\ [][Next]_vars

\* two processes, one call each, on the shared detector, their steps
\* interleaved: a.pdf is a page with one element of the catalogue, b.pdf
\* two pages with a square and an interactive checkbox
InitConcurrent ==
    /\ \E i \in 1..Len(Catalogue) :
        InitCalls([p \in Paths |-> IF p = "a.pdf" THEN Document(1, {<<1, i>>})
                                   ELSE Document(2, {<<1, 2>>, <<2, 3>>})],
                  [c \in CallIds |-> 1])
    /\ InitDedup(<<>>)
    /\ InitRest

SpecConcurrent == InitConcurrent /\ [][Next]_vars

(***************************************************************************)
(* The deduplicator taken alone, on every list of up to MaxCandidates      *)
(* candidates drawn from two pages, two confidences and four boxes: three  *)
(* in a chain (the middle one overlaps both ends, the ends do not overlap  *)
(* each other) and one of zero area.                                       *)
(***************************************************************************)
MaxCandidates == 3

DedupBoxes == {BBox(0, 0, 10, 10), BBox(4, 0, 10, 10), BBox(8, 0, 10, 10), BBox(0, 0, 0, 10)}

DedupCandidates ==
    {DetectedField(page_number, bbox, "TEXT", [detection_confidence |-> confidence]) :
        page_number \in {1, 2}, bbox \in DedupBoxes, confidence \in {70, 95}}

DedupOnce ==
    /\ dedup_pc = "start"
    /\ dedup_once' = deduplicate_candidates(dedup_input)
    /\ dedup_pc' = "once"
    /\ UNCHANGED <<call_vars, dedup_input, dedup_twice, rest_vars>>

DedupTwice ==
    /\ dedup_pc = "once"
    /\ dedup_twice' = deduplicate_candidates(dedup_once)
    /\ dedup_pc' = "twice"
    /\ UNCHANGED <<call_vars, dedup_input, dedup_once, rest_vars>>

NextDedup == DedupOnce \/ DedupTwice

InitAlone ==
    /\ InitCalls([p \in Paths |-> NotAPdf], [c \in CallIds |-> 0])
    /\ settings.detection_confidence_threshold = 50
    /\ \E n \in 0..MaxCandidates : \E the_input \in [1..n -> DedupCandidates] :
          InitDedup(the_input)
    /\ InitRest

SpecDedup == InitAlone /\ [][NextDedup]_vars

(***************************************************************************)
(* One call on a one-page document of text lines only: up to MaxLines      *)
(* lines of PageTexts, set one under the other, 50 pt apart, the same      *)
(* text possibly on more than one line.                                    *)
(***************************************************************************)
PageTexts ==
    { "[sig|role:client]",
      "[Date|role:Owner] [foo|role:a_1]",
      "[sig|signer1] [init|signer_1] [date|S1]",
      "[name|signer2] [email|signer_2] [check|s2]",
      "[text|sender] {{d}}",
      "Sign here and date",
      "Initial and date",
      "Signature: ___" }

MaxLines == 2

TextPage(texts) ==
    [drawings |-> <<>>,
     widgets |-> <<>>,
     lines |-> [k \in 1..Len(texts) |-> TextLine(texts[k], 100, 700 - 50 * (k - 1))]]

TextDocuments(n) ==
    {[kind |-> "pdf", pages |-> <<TextPage(texts)>>] :
        texts \in UNION {[1..m -> PageTexts] : m \in 0..n}}

InitPage ==
    /\ \E document \in TextDocuments(MaxLines) :
        InitCalls([p \in Paths |-> IF p = "a.pdf" THEN document ELSE NotAPdf],
                  [c \in CallIds |-> IF c = 1 THEN 1 ELSE 0])
    /\ InitDedup(<<>>)
    /\ InitRest

SpecPage == InitPage /\ [][Next]_vars

(***************************************************************************)
(* One call on a one-page document whose only line is a label followed by  *)
(* a blank of underscores.                                                 *)
(***************************************************************************)
Labels ==
    { "Date signed", "Signature date", "Print Name", "Email", "Initial here",
      "Amount", "Tenant Signature", "Name and email", "Dated initials",
      "Email initials", "Client" }

LabelDocuments ==
    {[kind |-> "pdf", pages |-> <<TextPage(<<label \o ": ___">>)>>] : label \in Labels}

InitLabels ==
    /\ \E document \in LabelDocuments :
        InitCalls([p \in Paths |-> IF p = "a.pdf" THEN document ELSE NotAPdf],
                  [c \in CallIds |-> IF c = 1 THEN 1 ELSE 0])
    /\ InitDedup(<<>>)
    /\ InitRest

SpecLabels == InitLabels /\ [][Next]_vars

(***************************************************************************)
(* One call on a one-page document of small squares, 12 pt wide, drawn at  *)
(* some of the places SquarePlaces on one base line: squares 5 pt apart    *)
(* share more than half of their area, squares 6 pt apart exactly half.    *)
(***************************************************************************)
SquarePlaces == {100, 105, 106, 112}

SquarePage(places) ==
    LET xs == Ascending(places)
    IN  [drawings |-> [k \in 1..Len(xs) |->
                          [items |-> <<[op |-> "re"]>>, rect |-> Rect(xs[k], 700, 12, 12)]],
         widgets |-> <<>>,
         lines |-> <<>>]

SquareDocuments ==
    {[kind |-> "pdf", pages |-> <<SquarePage(places)>>] : places \in SUBSET SquarePlaces}

InitSquares ==
    /\ \E document \in SquareDocuments :
        InitCalls([p \in Paths |-> IF p = "a.pdf" THEN document ELSE NotAPdf],
                  [c \in CallIds |-> IF c = 1 THEN 1 ELSE 0])
    /\ InitDedup(<<>>)
    /\ InitRest

SpecSquares == InitSquares /\ [][Next]_vars

(***************************************************************************)
(* The routes POST /documents/{id}/detect and /documents/{id}/detect/apply *)
(* (api/detection.py).  Each looks the document up, calls the detector     *)
(* with the document's id, path and stored layout, and converts what the   *)
(* detector returned.                                                      *)
(***************************************************************************)
\* the ids of the rows of the table "documents" the user owns
DocumentRows == DocumentIds \ {""}

\* the defaults of the response schema DetectedField
SchemaDefaults ==
    [owner |-> None,
     assignee_type |-> "ROLE",
     detected_role_key |-> None,
     role_confidence |-> 50,
     label |-> None,
     suggested_placeholder |-> None]

\* schemas.DetectedField(**given): the fields not given keep the defaults
SchemaDetectedField(given) ==
    [k \in DOMAIN given \cup DOMAIN SchemaDefaults |->
        IF k \in DOMAIN given THEN given[k] ELSE SchemaDefaults[k]]

\* the item of the response built for the candidate f
ResponseItem(f) ==
    SchemaDetectedField(
        [page_number |-> f.page_number,
         bbox |-> BBox(f.bbox.x, f.bbox.y, f.bbox.width, f.bbox.height),
         field_type |-> f.field_type,
         owner |-> f.owner,
         detection_confidence |-> f.detection_confidence,
         classification_confidence |-> f.classification_confidence,
         owner_confidence |-> f.owner_confidence,
         evidence |-> f.evidence,
         label |-> f.label,
         suggested_placeholder |-> f.nearby_text])

\* the column defaults of the model Field
FieldDefaults ==
    [owner |-> None,
     assignee_type |-> "ROLE",
     role_id |-> None,
     detected_role_key |-> None,
     required |-> TRUE,
     label |-> None,
     detection_confidence |-> None,
     classification_confidence |-> None,
     owner_confidence |-> None,
     role_confidence |-> None,
     evidence |-> None]

\* models.Field(**given)
Field(given) ==
    [k \in DOMAIN given \cup DOMAIN FieldDefaults |->
        IF k \in DOMAIN given THEN given[k] ELSE FieldDefaults[k]]

\* the row created for the field detected
FieldRow(document_id, detected) ==
    Field([document_id |-> document_id,
           page_number |-> detected.page_number,
           bbox_x |-> detected.bbox.x,
           bbox_y |-> detected.bbox.y,
           bbox_width |-> detected.bbox.width,
           bbox_height |-> detected.bbox.height,
           field_type |-> detected.field_type,
           owner |-> detected.owner,
           required |-> TRUE,
           label |-> detected.label,
           detection_confidence |-> detected.detection_confidence,
           classification_confidence |-> detected.classification_confidence,
           owner_confidence |-> detected.owner_confidence,
           evidence |-> detected.evidence])

\* FieldResponse.from_orm_with_bbox(field)
from_orm_with_bbox(field) ==
    [document_id |-> field.document_id,
     page_number |-> field.page_number,
     bbox |-> BBox(field.bbox_x, field.bbox_y, field.bbox_width, field.bbox_height),
     field_type |-> field.field_type,
     owner |-> field.owner,
     assignee_type |-> field.assignee_type,
     role_id |-> field.role_id,
     detected_role_key |-> field.detected_role_key,
     required |-> field.required,
     label |-> field.label,
     detection_confidence |-> field.detection_confidence,
     classification_confidence |-> field.classification_confidence,
     owner_confidence |-> field.owner_confidence,
     role_confidence |-> field.role_confidence,
     evidence |-> field.evidence]

\* the detector has returned to a route: the document of the call is a row
\* of the table and the route has not answered yet
Routed(c) ==
    /\ pc[c] = "returned"
    /\ args[c].document_id \in DocumentRows
    /\ response[c] = NoResponse

\* detect_fields, lines 63-86: convert and answer
Respond(c) ==
    /\ Routed(c)
    /\ response' = [response EXCEPT ![c] =
          [kind |-> "detection",
           document_id |-> args[c].document_id,
           detected_fields |-> [i \in 1..Len(outcome[c].detected_fields) |->
                                   ResponseItem(outcome[c].detected_fields[i])],
           detection_time_ms |-> outcome[c].detection_time_ms,
           total_candidates |-> outcome[c].total_candidates,
           filtered_candidates |-> outcome[c].filtered_candidates]]
    /\ UNCHANGED <<call_vars, dedup_vars, field_rows, env_vars>>

\* apply_detected_fields, lines 125-153: create the rows, commit, answer
Apply(c) ==
    /\ Routed(c)
    /\ LET created_fields == [i \in 1..Len(outcome[c].detected_fields) |->
                                 FieldRow(args[c].document_id, outcome[c].detected_fields[i])]
       IN  /\ field_rows' = field_rows \o created_fields
           /\ response' = [response EXCEPT ![c] =
                 [kind |-> "fields",
                  created |-> [i \in 1..Len(created_fields) |->
                                  from_orm_with_bbox(created_fields[i])]]]
    /\ UNCHANGED <<call_vars, dedup_vars, env_vars>>

NextHttp == \E c \in CallIds : Call(c) \/ Page(c) \/ Finish(c) \/ Respond(c) \/ Apply(c)

\* one request on a document of one page with one line of text
InitHttpCalls ==
    /\ \E document \in TextDocuments(1) :
        InitCalls([p \in Paths |-> IF p = "a.pdf" THEN document ELSE NotAPdf],
                  [c \in CallIds |-> IF c = 1 THEN 1 ELSE 0])
    /\ InitDedup(<<>>)
    /\ InitRest

SpecHttp == InitHttpCalls /\ [][NextHttp]_vars

(***************************************************************************)
(* The envelope routes (api/envelopes.py), the signing routes              *)
(* (api/signing.py) and the audit service (services/audit.py), for one     *)
(* envelope.  Every request has a session of its own (get_db): what it     *)
(* read stays as read in its session, and its commit updates the columns   *)
(* it assigned a value other than the one read.  A handler is a sequence   *)
(* of steps, one for its reads up to a commit and one for each commit;     *)
(* requests interleave between the steps.                                  *)
(***************************************************************************)
\* the bodies of POST /envelopes: roles (empty when not given) and
\* recipients; required holds the recipients that own a required field of
\* the document
EnvelopeCreates ==
    { [roles |-> <<>>,
       recipients |-> <<[role |-> "SIGNER_1", role_key |-> None],
                        [role |-> "SIGNER_2", role_key |-> None]>>,
       required |-> {1}],
      [roles |-> <<>>,
       recipients |-> <<[role |-> None, role_key |-> "client"]>>,
       required |-> {}],
      [roles |-> <<[key |-> "client", signing_order |-> <<1>>],
                   [key |-> "contractor", signing_order |-> <<2>>]>>,
       recipients |-> <<[role |-> "SIGNER_1", role_key |-> "client"],
                        [role |-> "SIGNER_2", role_key |-> "contractor"]>>,
       required |-> {}],
      [roles |-> <<[key |-> "client", signing_order |-> <<2>>],
                   [key |-> "witness", signing_order |-> Null]>>,
       recipients |-> <<[role |-> "SIGNER_1", role_key |-> "client"],
                        [role |-> "SIGNER_2", role_key |-> "witness"]>>,
       required |-> {}],
      [roles |-> <<[key |-> "client", signing_order |-> Null]>>,
       recipients |-> <<[role |-> "SIGNER_1", role_key |-> "witness"]>>,
       required |-> {}] }

\* role_key or (role.value.lower() if role else "signer_1")
RoleKeyOf(recipient_data) ==
    IF recipient_data.role_key \notin {None, ""} THEN recipient_data.role_key
    ELSE IF recipient_data.role # None THEN Lower(recipient_data.role)
    ELSE "signer_1"

\* the roles created from the recipients when the body gives no roles
RECURSIVE AutoRoles(_, _)
AutoRoles(recipients_data, made) ==
    IF recipients_data = <<>> THEN made
    ELSE LET role_key == RoleKeyOf(Head(recipients_data))
         IN  AutoRoles(Tail(recipients_data),
                       IF \E j \in 1..Len(made) : made[j].key = role_key THEN made
                       ELSE Append(made, [key |-> role_key, signing_order |-> Null]))

\* the rows of "roles" created for the body
RolesCreated(envelope_data) ==
    IF envelope_data.roles # <<>>
    THEN [i \in 1..Len(envelope_data.roles) |->
             [key |-> envelope_data.roles[i].key,
              signing_order |-> envelope_data.roles[i].signing_order]]
    ELSE AutoRoles(envelope_data.recipients, <<>>)

\* role_map[role_key]: the last role created with the key, 0 when there is none
RoleMap(role_rows, role_key) ==
    LET found == {j \in 1..Len(role_rows) : role_rows[j].key = role_key}
    IN  IF found = {} THEN 0 ELSE CHOOSE j \in found : \A k \in found : k <= j

\* the rows of "recipients" created for the body
RecipientsCreated(envelope_data, role_rows) ==
    [i \in 1..Len(envelope_data.recipients) |->
        [role |-> envelope_data.recipients[i].role,
         role_id |-> RoleMap(role_rows, RoleKeyOf(envelope_data.recipients[i])),
         order |-> i,
         status |-> "PENDING",
         signing_token |-> Null]]

\* a request arrives and is served at slot r, the first free slot
Arrives(r) ==
    /\ requests[r].pc \in {"idle", "done"}
    /\ \A q \in RequestIds : q < r => requests[q].pc \notin {"idle", "done"}
    /\ budget > 0
    /\ budget' = budget - 1

\* the request of slot r, just arrived
Arrived(op, who) == [IdleRequest EXCEPT !.op = op, !.who = who, !.id = budget]

\* the handler returns or raises: the response has the status code
Replied(request, code) ==
    [IdleRequest EXCEPT !.pc = "done", !.op = request.op, !.who = request.who,
                        !.all_completed = request.all_completed, !.code = code]

\* the commit has been done and the events of to_log are logged next, the
\* handler going on at after
Logging(request, to_log, after) ==
    [request EXCEPT !.pc = "log_read", !.to_log = to_log, !.after = after]

\* what a session reads of the envelope and its recipients
Seen == [status |-> envelope.status, recipients |-> recipients]

\* create_envelope
Create(r) ==
    /\ Arrives(r)
    /\ envelope.status = "NONE"
    /\ \E envelope_data \in EnvelopeCreates :
         LET role_rows == RolesCreated(envelope_data)
             recipient_rows == RecipientsCreated(envelope_data, role_rows)
         IN  IF \E i \in 1..Len(recipient_rows) : recipient_rows[i].role_id = 0
             THEN /\ requests' = [requests EXCEPT ![r] = Replied(Arrived("create", 0), 400)]
                  /\ UNCHANGED <<envelope, roles, recipients, field_values>>
             ELSE /\ envelope' = [status |-> "DRAFT", required |-> envelope_data.required]
                  /\ roles' = role_rows
                  /\ recipients' = recipient_rows
                  /\ requests' = [requests EXCEPT ![r] =
                        Logging(Arrived("create", 0), <<"ENVELOPE_CREATED">>, "done")]
                  /\ UNCHANGED field_values
    /\ UNCHANGED <<call_vars, dedup_vars, http_vars, events, clock>>

\* send_envelope up to its commit: the envelope is read and must be DRAFT
SendRead(r) ==
    /\ Arrives(r)
    /\ requests' = [requests EXCEPT ![r] =
          IF envelope.status = "NONE" THEN Replied(Arrived("send", 0), 404)
          ELSE IF envelope.status # "DRAFT" THEN Replied(Arrived("send", 0), 400)
          ELSE [Arrived("send", 0) EXCEPT !.pc = "commit", !.seen = Seen]]
    /\ UNCHANGED <<call_vars, dedup_vars, http_vars,
                   envelope, roles, recipients, field_values, events, clock>>

\* send_envelope, its commit: every recipient read gets a token and SENT
SendCommit(r) ==
    /\ requests[r].op = "send"
    /\ requests[r].pc = "commit"
    /\ recipients' = [i \in 1..Len(recipients) |->
          [recipients[i] EXCEPT !.signing_token = <<requests[r].id>>, !.status = "SENT"]]
    /\ envelope' = [envelope EXCEPT !.status = "SENT"]
    /\ requests' = [requests EXCEPT ![r] = Logging(@, <<"ENVELOPE_SENT">>, "done")]
    /\ UNCHANGED <<call_vars, dedup_vars, http_vars, roles, field_values, events, clock, budget>>

\* recipient.role.value of a link: AttributeError when the role is None
LinkOf(i) ==
    [recipient_id |-> i, role |-> recipients[i].role, status |-> recipients[i].status,
     signing_token |-> recipients[i].signing_token]

\* get_signing_links
Links(r) ==
    /\ Arrives(r)
    /\ LET with_token == SelectSeq([i \in 1..Len(recipients) |-> i],
                                   LAMBDA i : recipients[i].signing_token # Null)
       IN  requests' = [requests EXCEPT ![r] =
              IF envelope.status = "NONE" THEN Replied(Arrived("links", 0), 404)
              ELSE IF envelope.status = "DRAFT" THEN Replied(Arrived("links", 0), 400)
              ELSE IF \E k \in 1..Len(with_token) : recipients[with_token[k]].role = None
              THEN Replied(Arrived("links", 0), 500)
              ELSE [Replied(Arrived("links", 0), 200) EXCEPT
                       !.links = [k \in 1..Len(with_token) |-> LinkOf(with_token[k])]]]
    /\ UNCHANGED <<call_vars, dedup_vars, http_vars,
                   envelope, roles, recipients, field_values, events, clock>>

\* void_envelope up to its commit: the envelope read must not be COMPLETED
VoidRead(r) ==
    /\ Arrives(r)
    /\ requests' = [requests EXCEPT ![r] =
          IF envelope.status = "NONE" THEN Replied(Arrived("void", 0), 404)
          ELSE IF envelope.status = "COMPLETED" THEN Replied(Arrived("void", 0), 400)
          ELSE [Arrived("void", 0) EXCEPT !.pc = "commit", !.seen = Seen]]
    /\ UNCHANGED <<call_vars, dedup_vars, http_vars,
                   envelope, roles, recipients, field_values, events, clock>>

\* void_envelope, its commit: VOIDED, and the tokens read are cleared
VoidCommit(r) ==
    /\ requests[r].op = "void"
    /\ requests[r].pc = "commit"
    /\ envelope' = IF requests[r].seen.status # "VOIDED"
                   THEN [envelope EXCEPT !.status = "VOIDED"] ELSE envelope
    /\ recipients' = [i \in 1..Len(recipients) |->
          IF requests[r].seen.recipients[i].signing_token # Null
          THEN [recipients[i] EXCEPT !.signing_token = Null] ELSE recipients[i]]
    /\ requests' = [requests EXCEPT ![r] = Logging(@, <<"ENVELOPE_VOIDED">>, "done")]
    /\ UNCHANGED <<call_vars, dedup_vars, http_vars, roles, field_values, events, clock, budget>>

\* _check_signing_order: the recipients of the roles with a signing order
\* below that of the role of recipient i; none when its role has no order
EarlierRecipients(i) ==
    LET mine == roles[recipients[i].role_id].signing_order
    IN  IF mine = Null THEN {}
        ELSE {j \in 1..Len(recipients) :
                 /\ roles[recipients[j].role_id].signing_order # Null
                 /\ roles[recipients[j].role_id].signing_order[1] < mine[1]}

\* get_recipient_from_token for the link of recipient i, the link that
\* get_signing_links gives for the row: the status code it raises, 0 when it
\* returns
TokenCheck(i) ==
    IF recipients[i].signing_token = Null THEN 401
    ELSE IF envelope.status \in {"VOIDED", "COMPLETED"} THEN 400
    ELSE IF recipients[i].status = "COMPLETED" THEN 400
    ELSE IF \E j \in EarlierRecipients(i) : recipients[j].status # "COMPLETED" THEN 403
    ELSE 0

\* the request of a signing route that passed get_recipient_from_token: its
\* session holds the recipient of the token for the rest of the request (the
\* rows _check_signing_order read are local to it and are dropped)
Signing(op, i) ==
    [Arrived(op, i) EXCEPT !.pc = "commit", !.seen = Seen, !.loaded = {i}]

\* get_signing_session up to its commit
ViewRead(r) ==
    /\ Arrives(r)
    /\ \E i \in 1..Len(recipients) :
         requests' = [requests EXCEPT ![r] =
            IF TokenCheck(i) # 0 THEN Replied(Arrived("view", i), TokenCheck(i))
            ELSE IF recipients[i].status # "SENT" THEN Replied(Signing("view", i), 200)
            ELSE Signing("view", i)]
    /\ UNCHANGED <<call_vars, dedup_vars, http_vars,
                   envelope, roles, recipients, field_values, events, clock>>

\* get_signing_session, its commit: the recipient read as SENT is VIEWED
ViewCommit(r) ==
    /\ requests[r].op = "view"
    /\ requests[r].pc = "commit"
    /\ recipients' = [recipients EXCEPT ![requests[r].who].status = "VIEWED"]
    /\ requests' = [requests EXCEPT ![r] = Logging(@, <<"RECIPIENT_VIEWED">>, "done")]
    /\ UNCHANGED <<call_vars, dedup_vars, http_vars,
                   envelope, roles, field_values, events, clock, budget>>

\* save_field_value up to its commit; the field is the required field of
\* the recipient
SaveRead(r) ==
    /\ Arrives(r)
    /\ \E i \in 1..Len(recipients) :
         requests' = [requests EXCEPT ![r] =
            IF TokenCheck(i) # 0 THEN Replied(Arrived("save", i), TokenCheck(i))
            ELSE IF i \notin envelope.required THEN Replied(Signing("save", i), 404)
            ELSE Signing("save", i)]
    /\ UNCHANGED <<call_vars, dedup_vars, http_vars,
                   envelope, roles, recipients, field_values, events, clock>>

\* save_field_value, its commit: the value is stored, and the recipient read
\* as VIEWED is SIGNING
SaveCommit(r) ==
    /\ requests[r].op = "save"
    /\ requests[r].pc = "commit"
    /\ field_values' = field_values \cup {requests[r].who}
    /\ recipients' = IF requests[r].seen.recipients[requests[r].who].status = "VIEWED"
                     THEN [recipients EXCEPT ![requests[r].who].status = "SIGNING"]
                     ELSE recipients
    /\ requests' = [requests EXCEPT ![r] = Logging(@, <<"FIELD_COMPLETED">>, "done")]
    /\ UNCHANGED <<call_vars, dedup_vars, http_vars, envelope, roles, events, clock, budget>>

\* complete_signing up to its commit: the token, the order and the required
\* fields are checked; value tells whether the body holds a value for the
\* required field of the recipient
CompleteRead(r) ==
    /\ Arrives(r)
    /\ \E i \in 1..Len(recipients), value \in BOOLEAN :
         requests' = [requests EXCEPT ![r] =
            IF TokenCheck(i) # 0
            THEN Replied(Arrived("complete", i), TokenCheck(i))
            ELSE IF i \in envelope.required /\ ~value /\ i \notin field_values
            THEN Replied(Signing("complete", i), 400)
            ELSE [Signing("complete", i) EXCEPT
                     !.value = value /\ i \in envelope.required]]
    /\ UNCHANGED <<call_vars, dedup_vars, http_vars,
                   envelope, roles, recipients, field_values, events, clock>>

\* complete_signing, its commit: the recipient is COMPLETED and has no token
CompleteCommit(r) ==
    /\ requests[r].op = "complete"
    /\ requests[r].pc = "commit"
    /\ recipients' = [recipients EXCEPT ![requests[r].who] =
          [@ EXCEPT !.status = "COMPLETED", !.signing_token = Null]]
    /\ field_values' = IF requests[r].value THEN field_values \cup {requests[r].who}
                       ELSE field_values
    /\ requests' = [requests EXCEPT ![r] =
          Logging(@, <<"SIGNATURE_APPLIED", "RECIPIENT_COMPLETED">>, "query")]
    /\ UNCHANGED <<call_vars, dedup_vars, http_vars, envelope, roles, events, clock, budget>>

\* complete_signing, lines 505-510: the recipients of the envelope are
\* queried; the one the session holds keeps the status it has in it
CompleteQuery(r) ==
    /\ requests[r].op = "complete"
    /\ requests[r].pc = "query"
    /\ LET all_completed == \A i \in 1..Len(recipients) :
               \/ i \in requests[r].loaded
               \/ recipients[i].status = "COMPLETED"
       IN  requests' = [requests EXCEPT ![r] =
              IF all_completed THEN [@ EXCEPT !.pc = "finalize", !.all_completed = TRUE]
              ELSE Replied(@, 200)]
    /\ UNCHANGED <<call_vars, dedup_vars, http_vars,
                   envelope, roles, recipients, field_values, events, clock, budget>>

\* _finalize_envelope: the final document is made and the envelope COMPLETED
Finalize(r) ==
    /\ requests[r].op = "complete"
    /\ requests[r].pc = "finalize"
    /\ envelope' = [envelope EXCEPT !.status = "COMPLETED"]
    /\ requests' = [requests EXCEPT ![r] = Logging(@, <<"ENVELOPE_COMPLETED">>, "done")]
    /\ UNCHANGED <<call_vars, dedup_vars, http_vars,
                   roles, recipients, field_values, events, clock, budget>>

\* _get_last_event: the event_hash of the event of the greatest timestamp
LastEventHash ==
    IF events = <<>> THEN Null
    ELSE LET last == CHOOSE k \in 1..Len(events) :
                         \A j \in 1..Len(events) : events[j].timestamp <= events[k].timestamp
         IN  events[last].event_hash

\* _compute_event_hash: sha256 of what it hashes
ComputeEventHash(event_type, timestamp, previous_event_hash) ==
    <<[event_type |-> event_type, timestamp |-> timestamp,
       previous_event_hash |-> previous_event_hash]>>

\* log_event, lines 35-39: the timestamp is taken and the last event read
LogRead(r) ==
    /\ requests[r].pc = "log_read"
    /\ clock' = clock + 1
    /\ requests' = [requests EXCEPT ![r] =
          [@ EXCEPT !.pc = "log_commit", !.timestamp = clock + 1, !.previous = LastEventHash]]
    /\ UNCHANGED <<call_vars, dedup_vars, http_vars,
                   envelope, roles, recipients, field_values, events, budget>>

\* log_event, lines 41-62: the event is hashed, added and committed
LogCommit(r) ==
    /\ requests[r].pc = "log_commit"
    /\ events' = Append(events,
          [event_type |-> Head(requests[r].to_log),
           timestamp |-> requests[r].timestamp,
           previous_event_hash |-> requests[r].previous,
           event_hash |-> ComputeEventHash(Head(requests[r].to_log), requests[r].timestamp,
                                           requests[r].previous)])
    /\ requests' = [requests EXCEPT ![r] =
          IF Len(requests[r].to_log) > 1
          THEN [@ EXCEPT !.to_log = Tail(@), !.pc = "log_read"]
          ELSE IF requests[r].after = "done" THEN Replied(@, 200)
          ELSE [@ EXCEPT !.to_log = Tail(@), !.pc = requests[r].after]]
    /\ UNCHANGED <<call_vars, dedup_vars, http_vars,
                   envelope, roles, recipients, field_values, clock, budget>>

NextEnvelope ==
    \E r \in RequestIds :
        \/ Create(r) \/ SendRead(r) \/ SendCommit(r) \/ Links(r)
        \/ VoidRead(r) \/ VoidCommit(r)
        \/ ViewRead(r) \/ ViewCommit(r) \/ SaveRead(r) \/ SaveCommit(r)
        \/ CompleteRead(r) \/ CompleteCommit(r) \/ CompleteQuery(r) \/ Finalize(r)
        \/ LogRead(r) \/ LogCommit(r)

\* the server starts with empty tables
InitServer ==
    /\ InitCalls([p \in Paths |-> NotAPdf], [c \in CallIds |-> 0])
    /\ settings.detection_confidence_threshold = 50
    /\ InitDedup(<<>>)
    /\ InitRest

SpecEnvelope == InitServer /\ [][NextEnvelope]_vars

\* the server after an envelope has been created and sent, by two requests
\* served one after the other
InitSent ==
    /\ InitCalls([p \in Paths |-> NotAPdf], [c \in CallIds |-> 0])
    /\ settings.detection_confidence_threshold = 50
    /\ InitDedup(<<>>)
    /\ InitHttp
    /\ \E envelope_data \in EnvelopeCreates :
         LET role_rows == RolesCreated(envelope_data)
             recipient_rows == RecipientsCreated(envelope_data, role_rows)
             created == ComputeEventHash("ENVELOPE_CREATED", 1, Null)
         IN  /\ \A i \in 1..Len(recipient_rows) : recipient_rows[i].role_id # 0
             /\ envelope = [status |-> "SENT", required |-> envelope_data.required]
             /\ roles = role_rows
             /\ recipients = [i \in 1..Len(recipient_rows) |->
                   [recipient_rows[i] EXCEPT !.signing_token = <<MaxRequests + 1>>,
                                             !.status = "SENT"]]
             /\ events = <<[event_type |-> "ENVELOPE_CREATED", timestamp |-> 1,
                            previous_event_hash |-> Null, event_hash |-> created],
                           [event_type |-> "ENVELOPE_SENT", timestamp |-> 2,
                            previous_event_hash |-> created,
                            event_hash |-> ComputeEventHash("ENVELOPE_SENT", 2, created)]>>
    /\ field_values = {}
    /\ clock = 2
    /\ requests = [r \in RequestIds |-> IdleRequest]
    /\ budget = MaxRequests - 1

\* the requests for an envelope that has been sent
NextSent ==
    \E r \in RequestIds :
        \/ SendRead(r) \/ Links(r)
        \/ VoidRead(r) \/ VoidCommit(r)
        \/ ViewRead(r) \/ ViewCommit(r) \/ SaveRead(r) \/ SaveCommit(r)
        \/ CompleteRead(r) \/ CompleteCommit(r) \/ CompleteQuery(r) \/ Finalize(r)
        \/ LogRead(r) \/ LogCommit(r)

SpecSent == InitSent /\ [][NextSent]_vars

(***************************************************************************)
(* Properties.                                                             *)
(***************************************************************************)
\* the calls that have returned a DetectionResult
Returned == {c \in CallIds : pc[c] = "returned"}

Area(box) == box.width * box.height

IntersectionArea(a, b) ==
    Max(0, Min(a.x + a.width, b.x + b.width) - Max(a.x, b.x))
    * Max(0, Min(a.y + a.height, b.y + b.height) - Max(a.y, b.y))

\* i / a > 1/2 for integers, a # 0
MoreThanHalf(i, a) == (a > 0 /\ 2 * i > a) \/ (a < 0 /\ 2 * i < a)

\* significant overlap as section 4.8 of the specification words it
SignificantOverlap(a, b) ==
    /\ Area(a) # 0
    /\ Area(b) # 0
    /\ \/ MoreThanHalf(IntersectionArea(a, b), Area(a))
       \/ MoreThanHalf(IntersectionArea(a, b), Area(b))

\* no two candidates of the sequence that lie on one page overlap significantly
PairwiseApart(fields) ==
    \A i, j \in 1..Len(fields) :
        (i < j /\ fields[i].page_number = fields[j].page_number)
            => ~SignificantOverlap(fields[i].bbox, fields[j].bbox)

\* the first index of value v in sequence s (0 when it does not occur)
FirstIndex(s, v) ==
    IF \E i \in 1..Len(s) : s[i] = v
    THEN CHOOSE i \in 1..Len(s) : s[i] = v /\ \A j \in 1..(i - 1) : s[j] # v
    ELSE 0

\* how many times value v occurs in sequence s
Count(s, v) == Cardinality({i \in 1..Len(s) : s[i] = v})

StartsWith(s, prefix) == Len(s) >= Len(prefix) /\ SubSeq(s, 1, Len(prefix)) = prefix

\* the place of the strategy that wrote the evidence in the fixed order
\* underlines, checkboxes, keywords, anchors
StrategyRank(c) ==
    IF StartsWith(c.evidence, "Underline") \/ StartsWith(c.evidence, "Underscore") THEN 1
    ELSE IF \/ StartsWith(c.evidence, "PDF checkbox")
            \/ StartsWith(c.evidence, "Small square")
            \/ StartsWith(c.evidence, "Checkbox character") THEN 2
    ELSE IF \/ StartsWith(c.evidence, "Signature keyword")
            \/ StartsWith(c.evidence, "Date keyword")
            \/ StartsWith(c.evidence, "Initials keyword") THEN 3
    ELSE 4

\* C1: in every DetectionResult returned by detect_fields, no two candidates
\* of detected_fields that are on the same page overlap significantly.
C1_NoSignificantOverlap ==
    \A c \in Returned : PairwiseApart(outcome[c].detected_fields)

\* C1 witness: a result with two candidates on one page, returned after the
\* deduplicator dropped a candidate (the threshold 50 drops none)
C1_Witness ==
    \E c \in Returned :
        /\ settings.detection_confidence_threshold = 50
        /\ outcome[c].total_candidates > outcome[c].filtered_candidates
        /\ \E i, j \in 1..Len(outcome[c].detected_fields) :
              /\ i < j
              /\ outcome[c].detected_fields[i].page_number
                    = outcome[c].detected_fields[j].page_number

\* C2: every candidate of a result has detection_confidence at least the
\* threshold, and the result holds exactly the deduplicated candidates whose
\* confidence is not strictly below it, a confidence equal to it included.
C2_ThresholdFilter ==
    \A c \in Returned :
        LET threshold == settings.detection_confidence_threshold
            deduplicated == deduplicate_candidates(all_candidates[c])
            kept == outcome[c].detected_fields
        IN  /\ \A i \in 1..Len(kept) : kept[i].detection_confidence >= threshold
            /\ kept = SelectSeq(deduplicated,
                                LAMBDA f : ~(f.detection_confidence < threshold))

\* C2 witness: an unlabelled vector underline, whose confidence 50 equals the
\* threshold, is in the result
C2_Witness ==
    \E c \in Returned : \E i \in 1..Len(outcome[c].detected_fields) :
        /\ outcome[c].detected_fields[i].detection_confidence
              = settings.detection_confidence_threshold
        /\ outcome[c].detected_fields[i].evidence = "Underline detected (no label)"

\* C4: in every DetectionResult filtered_candidates is the length of
\* detected_fields.
C4_FilteredCount ==
    \A c \in Returned : outcome[c].filtered_candidates = Len(outcome[c].detected_fields)

\* C4 witness: a result from which the filter dropped a deduplicated candidate
\* and kept another
C4_Witness ==
    \E c \in Returned :
        /\ Len(outcome[c].detected_fields) > 0
        /\ Len(outcome[c].detected_fields) < Len(deduplicate_candidates(all_candidates[c]))

\* C5: every candidate a strategy emits, and so every candidate of a result,
\* whose assignee_type is SENDER has no detected_role_key.
C5_SenderHasNoRoleKey ==
    \A c \in CallIds :
        /\ \A i \in 1..Len(all_candidates[c]) :
              all_candidates[c][i].assignee_type = "SENDER"
                  => all_candidates[c][i].detected_role_key = None
        /\ c \in Returned =>
              \A i \in 1..Len(outcome[c].detected_fields) :
                  outcome[c].detected_fields[i].assignee_type = "SENDER"
                      => outcome[c].detected_fields[i].detected_role_key = None

\* C5 witness: the strategies emitted a legacy [type|sender] anchor and a
\* {{var}} sender variable, and a SENDER candidate is in the result
C5_Witness ==
    \E c \in Returned :
        /\ \E i, j \in 1..Len(all_candidates[c]) :
              /\ all_candidates[c][i].assignee_type = "SENDER"
              /\ all_candidates[c][i].label = "[date|sender]"
              /\ all_candidates[c][j].assignee_type = "SENDER"
              /\ StartsWith(all_candidates[c][j].evidence, "Sender variable")
        /\ \E i \in 1..Len(outcome[c].detected_fields) :
              outcome[c].detected_fields[i].assignee_type = "SENDER"

\* C6 as claimed: detected_fields lists lower pages before higher pages, and
\* within a page descends in detection_confidence, ties in insertion order.
C6_PageThenConfidenceOrder ==
    \A c \in Returned :
        LET fields == outcome[c].detected_fields
        IN  \A i, j \in 1..Len(fields) : i < j =>
                \/ fields[i].page_number < fields[j].page_number
                \/ /\ fields[i].page_number = fields[j].page_number
                   /\ \/ fields[i].detection_confidence > fields[j].detection_confidence
                      \/ /\ fields[i].detection_confidence = fields[j].detection_confidence
                         /\ StrategyRank(fields[i]) <= StrategyRank(fields[j])

\* C6 amended: detected_fields descends in detection_confidence over all
\* pages together; candidates of equal confidence are in insertion order:
\* lower pages first, and within a page the strategies in their fixed order.
C6_ConfidenceThenInsertionOrder ==
    \A c \in Returned :
        LET fields == outcome[c].detected_fields
        IN  \A i, j \in 1..Len(fields) : i < j =>
                \/ fields[i].detection_confidence > fields[j].detection_confidence
                \/ /\ fields[i].detection_confidence = fields[j].detection_confidence
                   /\ \/ fields[i].page_number < fields[j].page_number
                      \/ /\ fields[i].page_number = fields[j].page_number
                         /\ StrategyRank(fields[i]) <= StrategyRank(fields[j])

\* C6 witness: a result over two pages in which a candidate of page 2 comes
\* before a candidate of page 1, and two candidates tie
C6_Witness ==
    \E c \in Returned :
        LET fields == outcome[c].detected_fields
        IN  /\ \E i, j \in 1..Len(fields) :
                  i < j /\ fields[i].page_number > fields[j].page_number
            /\ \E i, j \in 1..Len(fields) :
                  /\ i < j
                  /\ fields[i].detection_confidence = fields[j].detection_confidence
                  /\ StrategyRank(fields[i]) < StrategyRank(fields[j])

\* C10 as claimed: when a call has ended, by returning or by raising, the PDF
\* handle it opened is closed.
C10_HandleClosedAtExit ==
    \A c \in CallIds : pc[c] \in {"returned", "raised"} => doc[c] # "open"

\* the deduplicator has run on dedup_input
Deduplicated == dedup_pc \in {"once", "twice"}

\* input candidate i is on the page of c, scores strictly above c and
\* overlaps c significantly
Outranks(i, c) ==
    /\ dedup_input[i].page_number = c.page_number
    /\ dedup_input[i].detection_confidence > c.detection_confidence
    /\ SignificantOverlap(dedup_input[i].bbox, c.bbox)

\* C3 as claimed: for every candidate c of the deduplicator's output, the
\* input held no candidate of the same page with strictly higher
\* detection_confidence that overlaps c significantly.
C3_NoHigherOverlapInInput ==
    Deduplicated =>
        \A k \in 1..Len(dedup_once) : \A i \in 1..Len(dedup_input) :
            ~Outranks(i, dedup_once[k])

\* C3 amended: every input candidate of the same page with strictly higher
\* detection_confidence that overlaps an output candidate c significantly is
\* itself absent from the output, displaced by an output candidate of its
\* page that overlaps it significantly and scores at least as high as it.
C3_HigherOverlapWasDisplaced ==
    Deduplicated =>
        \A k \in 1..Len(dedup_once) : \A i \in 1..Len(dedup_input) :
            Outranks(i, dedup_once[k]) =>
                /\ Count(dedup_once, dedup_input[i]) = 0
                /\ \E m \in 1..Len(dedup_once) :
                      /\ dedup_once[m].page_number = dedup_input[i].page_number
                      /\ dedup_once[m].detection_confidence
                            >= dedup_input[i].detection_confidence
                      /\ SignificantOverlap(dedup_once[m].bbox, dedup_input[i].bbox)

\* C3 witness: the output holds a candidate that a higher-scored input
\* candidate of its page overlaps
C3_Witness ==
    /\ Deduplicated
    /\ \E k \in 1..Len(dedup_once) : \E i \in 1..Len(dedup_input) :
          Outranks(i, dedup_once[k])

\* C7: the deduplicator is idempotent: what it returns for its own output is
\* that output, as a sequence.
C7_Idempotent == dedup_pc = "twice" => dedup_twice = dedup_once

\* C7 witness: the second run is over, on an output of two or more candidates
\* that the first run had reordered and shortened
C7_Witness ==
    /\ dedup_pc = "twice"
    /\ Len(dedup_once) >= 2
    /\ Len(dedup_once) < Len(dedup_input)
    /\ dedup_once # SubSeq(dedup_input, 1, Len(dedup_once))

\* C8 as claimed: an input in which no two candidates of one page overlap
\* significantly is returned unchanged: the output is the input sequence.
C8_ApartReturnedAsGiven ==
    (Deduplicated /\ PairwiseApart(dedup_input)) => dedup_once = dedup_input

\* C8 amended: of such an input no candidate is dropped or altered; the
\* output holds the input's candidates in descending detection_confidence,
\* equals in input order, so it is the input sequence when the input
\* already descends.
C8_ApartReturnedSorted ==
    (Deduplicated /\ PairwiseApart(dedup_input)) =>
        /\ Len(dedup_once) = Len(dedup_input)
        /\ \A i, j \in 1..Len(dedup_once) : i < j =>
              dedup_once[i].detection_confidence >= dedup_once[j].detection_confidence
        /\ \A v \in {dedup_input[i].detection_confidence : i \in 1..Len(dedup_input)} :
              SelectSeq(dedup_once, LAMBDA c : c.detection_confidence = v)
                  = SelectSeq(dedup_input, LAMBDA c : c.detection_confidence = v)
        /\ (\A i, j \in 1..Len(dedup_input) : i < j =>
               dedup_input[i].detection_confidence >= dedup_input[j].detection_confidence)
              => dedup_once = dedup_input

\* C8 witness: an input of candidates that are apart, two of them on one
\* page, which the deduplicator returned in another order
C8_Witness ==
    /\ Deduplicated
    /\ PairwiseApart(dedup_input)
    /\ dedup_once # dedup_input
    /\ \E i, j \in 1..Len(dedup_input) :
          i < j /\ dedup_input[i].page_number = dedup_input[j].page_number

\* a DetectionResult without its detection_time_ms
Timeless(result) == [result EXCEPT !.detection_time_ms = 0]

C11_StrategyFailureContained ==
    \A c \in CallIds :
        outcome[c].kind = "error" => outcome[c].error = "PdfOpen"

\* C12 as claimed: a call with an empty document_id ends with an
\* invalid-input error and never opens the PDF.
C12_EmptyDocumentIdRejected ==
    \A c \in CallIds :
        (pc[c] # "idle" /\ args[c].document_id = "") =>
            /\ doc[c] = "none"
            /\ pc[c] = "raised"

\* the calls whose page loop has run over the first page
Processed == {c \in CallIds : pc[c] \in {"loop", "returned"} /\ page_num[c] >= 1}

\* the texts of the lines of the first page of the file of call c
LineTexts(c) ==
    LET lines == files[args[c].file_path].pages[1].lines
    IN  [k \in 1..Len(lines) |-> lines[k].text]

\* how many lines of call c hold the tag
TagCount(c, tag) ==
    Cardinality({k \in 1..Len(LineTexts(c)) : Contains(tag, LineTexts(c)[k])})

\* the places in all_candidates[c] of the candidates labelled with the tag
Labelled(c, tag) ==
    {i \in 1..Len(all_candidates[c]) : all_candidates[c][i].label = tag}

\* role anchors of PageTexts: <<tag, field type, role key>> as section 4.7 of
\* the specification gives them
RoleAnchorCases ==
    { <<"[sig|role:client]", "SIGNATURE", "client">>,
      <<"[Date|role:Owner]", "DATE_SIGNED", "owner">>,
      <<"[foo|role:a_1]", "TEXT", "a_1">> }

\* legacy anchors of PageTexts: <<tag, assignee type, role key>>
LegacyAnchorCases ==
    { <<"[sig|signer1]", "ROLE", "signer_1">>,
      <<"[init|signer_1]", "ROLE", "signer_1">>,
      <<"[date|S1]", "ROLE", "signer_1">>,
      <<"[name|signer2]", "ROLE", "signer_2">>,
      <<"[email|signer_2]", "ROLE", "signer_2">>,
      <<"[check|s2]", "ROLE", "signer_2">>,
      <<"[text|sender]", "SENDER", None>> }

\* C13: for every [type|role:key] anchor on a page the anchor strategy emits
\* a candidate, and every candidate it emits for the anchor has assignee_type
\* ROLE, detected_role_key the lower-cased key and field_type the type of the
\* lower-cased code, TEXT for a code that is not in the table.
C13_RoleAnchorFields ==
    \A c \in Processed : \A case \in RoleAnchorCases :
        TagCount(c, case[1]) > 0 =>
            /\ Labelled(c, case[1]) # {}
            /\ \A i \in Labelled(c, case[1]) :
                  /\ all_candidates[c][i].assignee_type = "ROLE"
                  /\ all_candidates[c][i].field_type = case[2]
                  /\ all_candidates[c][i].detected_role_key = case[3]

\* C13 witness: the strategies have run on a page with an anchor of
\* upper-case letters and an anchor of an unknown type code
C13_Witness ==
    \E c \in Processed :
        /\ TagCount(c, "[Date|role:Owner]") > 0
        /\ TagCount(c, "[foo|role:a_1]") > 0
        /\ TagCount(c, "[sig|role:client]") > 0

\* C14: every legacy anchor [type|code] gets the assignee of the fixed
\* table (signer1, signer_1, s1: ROLE signer_1; signer2, signer_2, s2: ROLE
\* signer_2; sender: SENDER without a role key), and an anchor of the form
\* [type|role:key] yields no legacy candidate beside its own.
C14_LegacyAnchorFields ==
    \A c \in Processed :
        /\ \A case \in LegacyAnchorCases :
              TagCount(c, case[1]) > 0 =>
                  /\ Labelled(c, case[1]) # {}
                  /\ \A i \in Labelled(c, case[1]) :
                        /\ all_candidates[c][i].assignee_type = case[2]
                        /\ all_candidates[c][i].detected_role_key = case[3]
        /\ \A case \in RoleAnchorCases :
              /\ Cardinality(Labelled(c, case[1])) = TagCount(c, case[1])
              /\ \A i \in Labelled(c, case[1]) :
                    Contains("(role: ", all_candidates[c][i].evidence)

\* C14 witness: the strategies have run on a page with a legacy sender
\* anchor and legacy signer anchors
C14_Witness ==
    \E c \in Processed :
        /\ TagCount(c, "[text|sender]") > 0
        /\ \/ TagCount(c, "[date|S1]") > 0
           \/ TagCount(c, "[check|s2]") > 0

\* the candidate was written by the anchor-tag strategy
FromAnchorStrategy(candidate) ==
    \/ StartsWith(candidate.evidence, "Anchor tag")
    \/ StartsWith(candidate.evidence, "Sender variable tag")

\* C15 as claimed: every candidate the anchor-tag strategy emits, for role
\* anchors, legacy anchors and sender variables alike, has
\* detection_confidence = classification_confidence = role_confidence = 0.95.
C15_AnchorConfidences ==
    \A c \in CallIds : \A i \in 1..Len(all_candidates[c]) :
        FromAnchorStrategy(all_candidates[c][i]) =>
            /\ all_candidates[c][i].detection_confidence = 95
            /\ all_candidates[c][i].classification_confidence = 95
            /\ all_candidates[c][i].role_confidence = 95

\* the rendered place of line k of a text page
LinePlace(c, k) ==
    LET line == files[args[c].file_path].pages[1].lines[k]
    IN  <<line.x, line.y>>

\* C16 as claimed: every occurrence of an anchor tag yields a candidate at
\* the occurrence's own rendered rectangle and a field of the result there,
\* also when the same tag stands on two lines of the page.
C16_EveryOccurrencePlaced ==
    \A c \in CallIds :
        pc[c] = "returned" =>
            \A k \in 1..Len(LineTexts(c)) :
                LineTexts(c)[k] = "[sig|role:client]" =>
                    /\ \E i \in Labelled(c, "[sig|role:client]") :
                          <<all_candidates[c][i].bbox.x, all_candidates[c][i].bbox.y>>
                              = LinePlace(c, k)
                    /\ \E j \in 1..Len(outcome[c].detected_fields) :
                          /\ outcome[c].detected_fields[j].label = "[sig|role:client]"
                          /\ <<outcome[c].detected_fields[j].bbox.x,
                               outcome[c].detected_fields[j].bbox.y>> = LinePlace(c, k)

\* the candidate was written by the keyword strategy
FromKeywordStrategy(candidate) ==
    \/ StartsWith(candidate.evidence, "Signature keyword")
    \/ StartsWith(candidate.evidence, "Date keyword")
    \/ StartsWith(candidate.evidence, "Initials keyword")

\* C17 as claimed: the keyword strategy emits at most one candidate for a
\* layout line: no two of its candidates come from the same line (the lines
\* of a page differ in y, which the candidate takes over).
C17_OneKeywordFieldPerLine ==
    \A c \in CallIds : \A i, j \in 1..Len(all_candidates[c]) :
        (/\ i < j
         /\ FromKeywordStrategy(all_candidates[c][i])
         /\ FromKeywordStrategy(all_candidates[c][j])
         /\ all_candidates[c][i].page_number = all_candidates[c][j].page_number)
            => all_candidates[c][i].bbox.y # all_candidates[c][j].bbox.y

\* C18 as claimed: of a page whose only line is a signature keyword followed
\* by a run of underscores, exactly one candidate is left in the result.
C18_OneFieldForLabelledBlank ==
    \A c \in CallIds :
        (pc[c] = "returned" /\ LineTexts(c) = <<"Signature: ___">>)
            => Len(outcome[c].detected_fields) = 1

\* C19 as claimed: every candidate of a DetectionResult has bbox.width >= 0
\* and bbox.height >= 0, whatever the PDF and the caller's text_layout.
C19_BoxesNotNegative ==
    \A c \in CallIds :
        pc[c] = "returned" =>
            \A i \in 1..Len(outcome[c].detected_fields) :
                /\ outcome[c].detected_fields[i].bbox.width >= 0
                /\ outcome[c].detected_fields[i].bbox.height >= 0

\* the candidates a call running alone has collected after n pages
RECURSIVE CandidatesAlone(_, _, _)
CandidatesAlone(file, text_layout, n) ==
    IF n = 0 THEN <<>>
    ELSE CandidatesAlone(file, text_layout, n - 1)
         \o PageCandidates(file.pages[n], n, PageLayout(text_layout, file.pages[n], n))

\* the result of a call with these arguments running alone, the time apart
ResultAlone(the_args) ==
    LET file == files[the_args.file_path]
    IN  Timeless(DetectionResult(the_args.document_id,
                                 CandidatesAlone(file, the_args.text_layout, Len(file.pages)),
                                 settings.detection_confidence_threshold, 0))

\* C20: concurrent calls through the shared detector do not interfere: under
\* every interleaving of their steps a call has collected, page by page,
\* the candidates it collects when it runs alone, and it returns the result
\* it returns alone, detection_time_ms apart.
C20_NoInterference ==
    \A c \in CallIds :
        /\ pc[c] = "loop" =>
              all_candidates[c] = CandidatesAlone(files[args[c].file_path],
                                                  args[c].text_layout, page_num[c])
        /\ pc[c] = "returned" => Timeless(outcome[c]) = ResultAlone(args[c])

\* C20 witness: two calls on distinct PDFs are both in their page loop,
\* each with candidates collected, and one of them has a page left to read
C20_Witness ==
    /\ pc[1] = "loop" /\ pc[2] = "loop"
    /\ args[1].file_path # args[2].file_path
    /\ all_candidates[1] # <<>> /\ all_candidates[2] # <<>>
    /\ \E c \in CallIds : page_num[c] < Len(files[args[c].file_path].pages)

\* labels of Labels with the type section 4.10 of the specification gives
\* them: the first category in the order signature, date, name, email,
\* initials with a keyword in the lower-cased label, else TEXT
LabelCases ==
    { <<"Date signed", "DATE_SIGNED">>, <<"Signature date", "SIGNATURE">>,
      <<"Print Name", "NAME">>, <<"Email", "EMAIL">>, <<"Initial here", "INITIALS">>,
      <<"Amount", "TEXT">>, <<"Tenant Signature", "SIGNATURE">>,
      <<"Name and email", "NAME">>, <<"Dated initials", "DATE_SIGNED">>,
      <<"Email initials", "EMAIL">>, <<"Client", "TEXT">> }

\* the candidate was written by the underline strategy
FromUnderlineStrategy(candidate) ==
    \/ StartsWith(candidate.evidence, "Underline")
    \/ StartsWith(candidate.evidence, "Underscore")

\* the places in all_candidates[c] of the underline candidates labelled so
Blanks(c, label) ==
    {i \in 1..Len(all_candidates[c]) :
        /\ FromUnderlineStrategy(all_candidates[c][i])
        /\ all_candidates[c][i].label = label}

\* C24: the label classifier gives every label the type of the first
\* category in the order signature, date, name, email, initials that has a
\* keyword in the lower-cased label, and TEXT when none has: the blank that
\* follows the label is a field of that type.
C24_LabelTypes ==
    \A c \in Processed : \A case \in LabelCases :
        LineTexts(c) = <<case[1] \o ": ___">> =>
            /\ Blanks(c, case[1] \o ":") # {}
            /\ \A i \in Blanks(c, case[1] \o ":") :
                  all_candidates[c][i].field_type = case[2]

\* C24 witness: a label with a signature keyword and a keyword of a later
\* category has been classified
C24_Witness ==
    \E c \in Processed :
        /\ LineTexts(c) = <<"Tenant Signature: ___">>
        /\ Blanks(c, "Tenant Signature:") # {}

\* C25 as claimed: the candidates of the underline strategy carry the role
\* inferred from their label: detected_role_key is the inferred key and
\* role_confidence the confidence of the inference (0.7 or 0.3).
C25_RoleFromLabel ==
    \A c \in CallIds : \A i \in 1..Len(all_candidates[c]) :
        (/\ FromUnderlineStrategy(all_candidates[c][i])
         /\ all_candidates[c][i].label # None) =>
            /\ all_candidates[c][i].role_confidence \in {30, 70}
            /\ all_candidates[c][i].role_confidence
                  = infer_role_from_text(all_candidates[c][i].label)[2]
            /\ all_candidates[c][i].detected_role_key
                  = infer_role_from_text(all_candidates[c][i].label)[1]

\* the pairs of fields of the result of call c that lie on one page and
\* have positive area
PositivePairs(c) ==
    {<<i, j>> \in (1..Len(outcome[c].detected_fields)) \X (1..Len(outcome[c].detected_fields)) :
        /\ i < j
        /\ outcome[c].detected_fields[i].page_number = outcome[c].detected_fields[j].page_number
        /\ Area(outcome[c].detected_fields[i].bbox) > 0
        /\ Area(outcome[c].detected_fields[j].bbox) > 0}

\* twice the intersection of fields i and j of the result of call c, and
\* the smaller of their areas
TwiceShared(c, i, j) ==
    2 * IntersectionArea(outcome[c].detected_fields[i].bbox, outcome[c].detected_fields[j].bbox)

SmallerArea(c, i, j) ==
    Min(Area(outcome[c].detected_fields[i].bbox), Area(outcome[c].detected_fields[j].bbox))

C21_AssigneeKept ==
    \A c \in CallIds :
        /\ response[c].kind = "detection" =>
              \A i \in 1..Len(outcome[c].detected_fields) :
                 /\ response[c].detected_fields[i].assignee_type
                       = outcome[c].detected_fields[i].assignee_type
                 /\ response[c].detected_fields[i].detected_role_key
                       = outcome[c].detected_fields[i].detected_role_key
        /\ response[c].kind = "fields" =>
              \A i \in 1..Len(outcome[c].detected_fields) :
                 /\ field_rows[i].assignee_type = outcome[c].detected_fields[i].assignee_type
                 /\ field_rows[i].detected_role_key
                       = outcome[c].detected_fields[i].detected_role_key

\* the request of slot r has just been answered by the route op
Answered(r, op) ==
    /\ Arrives(r)
    /\ requests'[r].pc = "done"
    /\ requests'[r].op = op

\* the tables of the envelope are left as they are
TablesKept == UNCHANGED <<envelope, roles, recipients, field_values>>

\* C22 as claimed: a newly created envelope is DRAFT, and send_envelope
\* succeeds only on a DRAFT envelope, which it sets to SENT with every
\* recipient SENT and holding a token; on an envelope in any other status it
\* is rejected and changes neither the envelope nor its recipients, so that
\* an envelope is sent at most once.
C22_SentOnlyFromDraft ==
    [][\A r \in RequestIds :
         /\ (envelope.status = "NONE" /\ envelope'.status # "NONE") =>
               envelope'.status = "DRAFT"
         /\ SendCommit(r) =>
               /\ envelope.status = "DRAFT"
               /\ envelope'.status = "SENT"
               /\ \A i \in 1..Len(recipients') :
                     /\ recipients'[i].status = "SENT"
                     /\ recipients'[i].signing_token # Null
         /\ (Answered(r, "send") /\ envelope.status # "DRAFT") =>
               /\ requests'[r].code \in {400, 404}
               /\ TablesKept]_vars

\* the recipients that hold a link in the answer of the request of slot r
Linked(r) == {requests[r].links[k].recipient_id : k \in 1..Len(requests[r].links)}

\* C23 as claimed: on an envelope that has been sent and is not voided
\* get_signing_links succeeds and returns exactly one link for each recipient
\* that has not completed, whatever body create_envelope accepted.
C23_LinkForEveryOpenRecipient ==
    [][\A r \in RequestIds :
         (Answered(r, "links") /\ envelope.status \in {"SENT", "COMPLETED"}) =>
            /\ requests'[r].code = 200
            /\ Len(requests'[r].links) = Cardinality(Linked(r)')
            /\ Linked(r)' = {i \in 1..Len(recipients) : recipients[i].status # "COMPLETED"}]_vars

C28_VoidedAndCompletedTerminal ==
    [][/\ envelope.status = "VOIDED" =>
             /\ envelope'.status # "COMPLETED"
             /\ \A i \in 1..Len(recipients) :
                   recipients'[i].status = "COMPLETED" => recipients[i].status = "COMPLETED"
       /\ envelope.status = "COMPLETED" => envelope'.status # "VOIDED"]_vars

\* the signing order of the role of recipient i, Null when it has none
OrderOf(i) == roles[recipients[i].role_id].signing_order

\* the recipients that sign before recipient i
Before(i) ==
    {j \in 1..Len(recipients) :
        OrderOf(i) # Null /\ OrderOf(j) # Null /\ OrderOf(j)[1] < OrderOf(i)[1]}

\* the request of slot r writes for its recipient: it marks the session
\* viewed, saves a field value or completes the recipient
WritesForRecipient(r) == ViewCommit(r) \/ SaveCommit(r) \/ CompleteCommit(r)

\* C29 as claimed: a recipient of a role with a signing order is not
\* completed, does not view the session and saves no field value while a
\* recipient that signs before it is not COMPLETED; a recipient of a role
\* without signing order is never refused for the order.
C29_SigningOrderEnforced ==
    [][\A r \in RequestIds :
         /\ WritesForRecipient(r) =>
               \A j \in Before(requests[r].who) : recipients[j].status = "COMPLETED"
         /\ (requests'[r].code = 403 /\ requests[r].code # 403) =>
               OrderOf(requests'[r].who) # Null]_vars

\* the events in the order of their timestamps, as get_audit_trail gives them
Trail ==
    [k \in 1..Len(events) |->
        events[CHOOSE n \in 1..Len(events) :
                  Cardinality({m \in 1..Len(events) :
                                  events[m].timestamp < events[n].timestamp}) = k - 1]]

\* C30 as claimed: after any interleaving of log_event calls the events of
\* the envelope in the order of their timestamps form a hash chain: the first
\* has no previous_event_hash and every later one has the event_hash of the
\* event before it.
C30_HashChain ==
    \A k \in 1..Len(events) :
        Trail[k].previous_event_hash = IF k = 1 THEN Null ELSE Trail[k - 1].event_hash

====
